---- MODULE Spec2Model ----
(***************************************************************************)
(* Model of the cryptography samples of "Essential Cryptography for        *)
(* JavaScript Developers".  Every sample is a self-contained script, so a  *)
(* behaviour of the model runs one script (variable prog) and calls its    *)
(* functions with inputs drawn from small sets.                            *)
(*                                                                         *)
(* The platform primitives (crypto.randomBytes, AES-GCM, RSA-OAEP, AES-KW, *)
(* Argon2) are not part of the repository.  They are modelled as ideal     *)
(* primitives over symbolic bytes: a byte is a tuple whose first element   *)
(* names what produced it,                                                 *)
(*   <<"b", n>>                    the plain byte n, 0..255                *)
(*   <<"rnd", d, i, x>>            byte i of the d-th draw of the random   *)
(*                                 generator, xor x                        *)
(*   <<"gcm", key, iv, i, n>>      byte i of the AES-GCM key stream of     *)
(*                                 (key, iv), xor the plain byte n         *)
(*   <<"tag", key, iv, ct, i, x>>  byte i of the AES-GCM authentication    *)
(*                                 tag of ciphertext ct under (key, iv),   *)
(*                                 xor x                                   *)
(*   <<"oaep", pair, seed, m, x>>  the RSA-OAEP encryption of m under the  *)
(*                                 public key of key pair `pair` with the  *)
(*                                 padding seed `seed` (the whole block as *)
(*                                 one element), xor x                     *)
(*   <<"kdf", p, salt, n, i>>      byte i of the n-byte Argon2id hash of   *)
(*                                 the bytes p with the salt               *)
(*   <<"kw", kek, data, i, x>>     byte i of the AES-KW wrapping of data   *)
(*                                 under the key kek, xor x                *)
(*   <<"junk">>                    a byte nothing is known about           *)
(* so that two primitive outputs are equal exactly when they were computed *)
(* from equal inputs (no collisions, no lucky forgeries).  Inside such a   *)
(* term a buffer is written by its name (Name): a whole draw of the random *)
(* generator is the one-element sequence <<"draw", d, size, 0>>, any other *)
(* buffer is itself.  Buffers are sequences of bytes; JavaScript strings   *)
(* are sequences of UTF-16 code units (integers).                          *)
(***************************************************************************)
EXTENDS Integers, Sequences, FiniteSets, TLC

VARIABLES
    prog,       \* the script this behaviour runs
    rng,        \* number of draws made from the random generator so far
    keys,       \* symmetric keys the script holds (Buffers of 32 bytes)
    used,       \* history: the key and the nonce each seal call has used
    last,       \* the latest seal call: its inputs, its draws and what it returned
    call,       \* the latest call that returned or threw, with the primitives it used
    users,      \* key-wrap.js: the user profiles kept in memory, by user name
    stream,     \* aes-stream.js: the streams and the promise of the call in progress
    keyPairs,   \* key agreement server: the ephemeral key pairs kept in memory, by key ID
    clients,    \* key agreement clients: where each one is in its script and what it holds
    served      \* key agreement server: the key agreements completed (what it printed)

vars == <<prog, rng, keys, used, last, call, users, stream, keyPairs, clients, served>>

\* The variables of the key agreement server and its clients.
exchange == <<keyPairs, clients, served>>

(***************************************************************************)
(* Bounds of the model.                                                    *)
(***************************************************************************)
MaxStrLen == 2      \* longest plaintext string, in UTF-16 code units
MaxDraws == 3       \* draws from the random generator per behaviour of aes-256-gcm.js
MaxSeals == 2       \* hybridEncrypt calls per behaviour of the hybrid scripts
MaxPairs == 2       \* RSA key pairs of the hybrid scripts
MaxChunks == 2      \* chunks the source stream of the streaming encrypt delivers
MaxDerivations == 2 \* deriveKey calls per behaviour of the key derivation example
MaxClients == 2     \* clients of the key agreement server

(***************************************************************************)
(* Integer helpers.                                                        *)
(***************************************************************************)
Min(a, b) == IF a < b THEN a ELSE b

RECURSIVE Pow2(_)
Pow2(n) == IF n = 0 THEN 1 ELSE 2 * Pow2(n - 1)

\* n xor 2^j on a byte value.
FlipInt(n, j) == IF (n \div Pow2(j)) % 2 = 1 THEN n - Pow2(j) ELSE n + Pow2(j)

(***************************************************************************)
(* Buffers.                                                                *)
(***************************************************************************)
Plain(n) == <<"b", n>>
IsPlain(b) == b[1] = "b"

\* Buffer.slice(start, end) / Uint8Array.slice: indices are clamped to the length.
Slice(buf, start, end) == SubSeq(buf, Min(start, Len(buf)) + 1, Min(end, Len(buf)))
SliceFrom(buf, start) == Slice(buf, start, Len(buf))

\* One bit of one byte of a buffer flipped (what a bit error on the wire does).
FlipByte(b, j) ==
    CASE b[1] = "b"   -> <<"b", FlipInt(b[2], j)>>
      [] b[1] = "rnd" -> <<"rnd", b[2], b[3], FlipInt(b[4], j)>>
      [] b[1] = "gcm" -> <<"gcm", b[2], b[3], b[4], FlipInt(b[5], j)>>
      [] b[1] = "tag" -> <<"tag", b[2], b[3], b[4], b[5], FlipInt(b[6], j)>>
      [] b[1] = "oaep" -> <<"oaep", b[2], b[3], b[4], FlipInt(b[5], j)>>
      [] b[1] = "kw" -> <<"kw", b[2], b[3], b[4], FlipInt(b[5], j)>>
      [] b[1] = "sig" -> <<"sig", b[2], b[3], b[4], b[5], b[6], FlipInt(b[7], j)>>
      [] OTHER        -> b
FlipBit(buf, pos, j) == [i \in 1..Len(buf) |-> IF i = pos THEN FlipByte(buf[i], j) ELSE buf[i]]

(***************************************************************************)
(* Strings.  cipher.update(plaintext, 'utf8') encodes the string's UTF-16  *)
(* code units as UTF-8, a surrogate pair as one four-byte sequence and an  *)
(* unpaired surrogate as U+FFFD; Buffer.toString('utf8') decodes, every    *)
(* ill-formed sequence giving U+FFFD.                                      *)
(***************************************************************************)
IsHighSurrogate(u) == u >= 55296 /\ u <= 56319
IsLowSurrogate(u) == u >= 56320 /\ u <= 57343

Utf8Bytes(cp) ==
    IF cp < 128 THEN <<Plain(cp)>>
    ELSE IF cp < 2048 THEN <<Plain(192 + (cp \div 64)), Plain(128 + (cp % 64))>>
    ELSE IF cp < 65536
        THEN <<Plain(224 + (cp \div 4096)), Plain(128 + ((cp \div 64) % 64)), Plain(128 + (cp % 64))>>
    ELSE <<Plain(240 + (cp \div 262144)), Plain(128 + ((cp \div 4096) % 64)),
           Plain(128 + ((cp \div 64) % 64)), Plain(128 + (cp % 64))>>

RECURSIVE Utf8EncodeFrom(_, _)
Utf8EncodeFrom(str, i) ==
    IF i > Len(str) THEN <<>>
    ELSE IF IsHighSurrogate(str[i]) /\ i < Len(str) /\ IsLowSurrogate(str[i + 1])
        THEN Utf8Bytes(65536 + (str[i] - 55296) * 1024 + (str[i + 1] - 56320))
             \o Utf8EncodeFrom(str, i + 2)
    ELSE IF IsHighSurrogate(str[i]) \/ IsLowSurrogate(str[i])
        THEN Utf8Bytes(65533) \o Utf8EncodeFrom(str, i + 1)
    ELSE Utf8Bytes(str[i]) \o Utf8EncodeFrom(str, i + 1)

Utf8Encode(str) == Utf8EncodeFrom(str, 1)

\* The value of a byte; a byte that is not plain has no known value.
ByteVal(b) == IF IsPlain(b) THEN b[2] ELSE -1

CodeUnits(cp) ==
    IF cp < 65536 THEN <<cp>>
    ELSE <<55296 + ((cp - 65536) \div 1024), 56320 + ((cp - 65536) % 1024)>>

\* The UTF-8 decoder: cp is the code point being assembled, needed the number of
\* continuation bytes still expected, lower..upper the range the next one must be in.
RECURSIVE Utf8DecodeFrom(_, _, _, _, _, _)
Utf8DecodeFrom(buf, i, cp, needed, lower, upper) ==
    IF i > Len(buf) THEN (IF needed > 0 THEN <<65533>> ELSE <<>>)
    ELSE LET b == ByteVal(buf[i]) IN
        IF needed = 0 THEN
            IF b < 0 THEN <<-1>> \o Utf8DecodeFrom(buf, i + 1, 0, 0, 128, 191)
            ELSE IF b <= 127 THEN <<b>> \o Utf8DecodeFrom(buf, i + 1, 0, 0, 128, 191)
            ELSE IF b >= 194 /\ b <= 223 THEN Utf8DecodeFrom(buf, i + 1, b - 192, 1, 128, 191)
            ELSE IF b >= 224 /\ b <= 239
                THEN Utf8DecodeFrom(buf, i + 1, b - 224, 2,
                                    IF b = 224 THEN 160 ELSE 128, IF b = 237 THEN 159 ELSE 191)
            ELSE IF b >= 240 /\ b <= 244
                THEN Utf8DecodeFrom(buf, i + 1, b - 240, 3,
                                    IF b = 240 THEN 144 ELSE 128, IF b = 244 THEN 143 ELSE 191)
            ELSE <<65533>> \o Utf8DecodeFrom(buf, i + 1, 0, 0, 128, 191)
        ELSE IF b < lower \/ b > upper
            THEN <<65533>> \o Utf8DecodeFrom(buf, i, 0, 0, 128, 191)
        ELSE IF needed = 1
            THEN CodeUnits(cp * 64 + (b - 128)) \o Utf8DecodeFrom(buf, i + 1, 0, 0, 128, 191)
        ELSE Utf8DecodeFrom(buf, i + 1, cp * 64 + (b - 128), needed - 1, 128, 191)

Utf8Decode(buf) == Utf8DecodeFrom(buf, 1, 0, 0, 128, 191)

\* The code units plaintexts are made of: 'A' and the two halves of U+1F600 (the
\* pair is four bytes in UTF-8; alone, each half is an unpaired surrogate).
CodeUnitAlphabet == {65, 55357, 56832}

RECURSIVE StringsOfLen(_)
StringsOfLen(n) ==
    IF n = 0 THEN {<<>>}
    ELSE {Append(s, u) : s \in StringsOfLen(n - 1), u \in CodeUnitAlphabet}

Strings == UNION {StringsOfLen(n) : n \in 0..MaxStrLen}

\* A string with no unpaired surrogate.
RECURSIVE WellFormedFrom(_, _)
WellFormedFrom(str, i) ==
    IF i > Len(str) THEN TRUE
    ELSE IF IsHighSurrogate(str[i])
        THEN i < Len(str) /\ IsLowSurrogate(str[i + 1]) /\ WellFormedFrom(str, i + 2)
    ELSE ~IsLowSurrogate(str[i]) /\ WellFormedFrom(str, i + 1)

WellFormed(str) == WellFormedFrom(str, 1)

(***************************************************************************)
(* Platform primitives (node:crypto).                                      *)
(***************************************************************************)
\* crypto.randomBytes(size): the draw-th draw of the generator.  Draws are fresh:
\* no two draws return the same bytes.
RandomBytes(size, draw) == [i \in 1..size |-> <<"rnd", draw, i, 0>>]

\* The name of a buffer inside a term, and the buffer a name stands for.
Name(buf) ==
    IF Len(buf) > 0 /\ buf[1][1] = "rnd" /\ buf = RandomBytes(Len(buf), buf[1][2])
        THEN << <<"draw", buf[1][2], Len(buf), 0>> >>
    ELSE buf
Denote(name) ==
    IF Len(name) = 1 /\ name[1][1] = "draw" THEN RandomBytes(name[1][3], name[1][2])
    ELSE name

KeyLen == 32        \* bytes of an AES-256 key
NonceLen == 12      \* bytes of the AES-GCM IV of the Node samples
TagLen == 16        \* bytes of the AES-GCM authentication tag

\* createCipheriv / createDecipheriv('aes-256-gcm', key, iv): "" when the object is
\* created, else the error thrown.  GCM takes an IV of any length but zero.
GcmInitError(key, iv) ==
    IF Len(key) # KeyLen THEN "Invalid key length"
    ELSE IF Len(iv) = 0 THEN "Invalid initialization vector"
    ELSE ""

\* cipher.update(data) ++ cipher.final(): counter mode, byte i of the output is
\* byte i of the key stream of (key, iv) xor byte i of the data.
GcmCiphertext(key, iv, data) ==
    [i \in 1..Len(data) |->
        IF IsPlain(data[i]) THEN <<"gcm", Name(key), Name(iv), i, data[i][2]>>
        ELSE <<"junk">>]

\* decipher.update(ciphertext): the same key stream xor-ed again.
GcmPlaintext(key, iv, ciphertext) ==
    [i \in 1..Len(ciphertext) |->
        LET c == ciphertext[i] IN
        IF c[1] = "gcm" /\ c[2] = Name(key) /\ c[3] = Name(iv) /\ c[4] = i THEN Plain(c[5])
        ELSE <<"junk">>]

\* cipher.getAuthTag(): the 16-byte tag of the ciphertext under (key, iv).
GcmAuthTag(key, iv, ciphertext) ==
    [i \in 1..TagLen |-> <<"tag", Name(key), Name(iv), ciphertext, i, 0>>]

\* decipher.setAuthTag(tag) without the authTagLength option accepts every tag
\* length NIST SP 800-38D allows (4, 8, 12..16 bytes) and throws on any other.
ValidGcmTagLength(n) == n = 4 \/ n = 8 \/ (n >= 12 /\ n <= 16)

\* decipher.final(): the tag that was set is compared with the leading bytes of
\* the tag computed over what was fed to update().
GcmTagMatches(key, iv, ciphertext, tag) ==
    tag = SubSeq(GcmAuthTag(key, iv, ciphertext), 1, Len(tag))

AuthenticationFailed == "Unsupported state or unable to authenticate data"
InvalidTagLength == "Invalid authentication tag length"

(***************************************************************************)
(* Results of calls: ok with a value, or an error thrown; ops lists the    *)
(* cryptographic operations the call attempted, in order.                  *)
(***************************************************************************)
Returned(v, o) == [ok |-> TRUE, val |-> v, err |-> "", ops |-> o]
Threw(e, o) == [ok |-> FALSE, val |-> <<>>, err |-> e, ops |-> o]

(***************************************************************************)
(* ch4-symmetric-encryption/aes-256-gcm.js                                 *)
(***************************************************************************)
\* Variants of encrypt that the properties below must tell apart from it: the tag
\* appended after the ciphertext, and a nonce that is a constant of the module.
EncryptTagLast(key, plaintext, iv) ==
    LET encrypted == GcmCiphertext(key, iv, Utf8Encode(plaintext))
        tag == GcmAuthTag(key, iv, encrypted)
    IN  iv \o encrypted \o tag

EncryptFixedIv(key, plaintext, iv) ==
    LET fixed == [i \in 1..NonceLen |-> Plain(0)]
        encrypted == GcmCiphertext(key, fixed, Utf8Encode(plaintext))
        tag == GcmAuthTag(key, fixed, encrypted)
    IN  fixed \o tag \o encrypted

\* encrypt(key, plaintext); iv is what `await randomBytes(12)` returned.
Encrypt(key, plaintext, iv) ==
    LET encrypted == GcmCiphertext(key, iv, Utf8Encode(plaintext))
        tag == GcmAuthTag(key, iv, encrypted)
    IN  iv \o tag \o encrypted

\* decrypt(key, message)
Decrypt(key, message) ==
    LET iv == Slice(message, 0, 12)
        tag == Slice(message, 12, 28)
        ciphertext == SliceFrom(message, 28)
    IN  IF GcmInitError(key, iv) # ""
            THEN Threw(GcmInitError(key, iv), <<"createDecipheriv">>)
        ELSE IF ~ValidGcmTagLength(Len(tag))
            THEN Threw(InvalidTagLength, <<"createDecipheriv", "setAuthTag">>)
        ELSE IF ~GcmTagMatches(key, iv, ciphertext, tag)
            THEN Threw(AuthenticationFailed,
                       <<"createDecipheriv", "setAuthTag", "update", "final">>)
        ELSE Returned(Utf8Decode(GcmPlaintext(key, iv, ciphertext)),
                      <<"createDecipheriv", "setAuthTag", "update", "final">>)

(***************************************************************************)
(* ch5-asymmetric-and-hybrid-encryption/rsa-hybrid-encrypt.js              *)
(* An RSA key is the number of its key pair: the script reads the public   *)
(* and the private key of one pair from two PEM files.                     *)
(***************************************************************************)
OaepDecodingError == "oaep decoding error"

\* rsaEncrypt(publicKey, message): crypto.publicEncrypt with OAEP padding and
\* SHA-256; seed is the draw OpenSSL makes for the padding.
RsaEncrypt(publicKey, plaintext, seed) ==
    << <<"oaep", publicKey, seed, Name(plaintext), 0>> >>

\* rsaDecrypt(privateKey, message): crypto.privateDecrypt; the padding check fails
\* for another key pair and for a block that was altered.
RsaDecrypt(privateKey, message) ==
    IF /\ Len(message) = 1
       /\ message[1][1] = "oaep"
       /\ message[1][2] = privateKey
       /\ message[1][5] = 0
        THEN Returned(Denote(message[1][4]), <<"privateDecrypt">>)
    ELSE Threw(OaepDecodingError, <<"privateDecrypt">>)

\* symmetricEncrypt(key, plaintext)
SymmetricEncrypt(key, plaintext, iv) ==
    LET encrypted == GcmCiphertext(key, iv, Utf8Encode(plaintext))
        tag == GcmAuthTag(key, iv, encrypted)
    IN  iv \o tag \o encrypted

\* symmetricDecrypt(key, message)
SymmetricDecrypt(key, message) ==
    LET iv == Slice(message, 0, 12)
        tag == Slice(message, 12, 28)
        ciphertext == SliceFrom(message, 28)
    IN  IF GcmInitError(key, iv) # ""
            THEN Threw(GcmInitError(key, iv), <<"createDecipheriv">>)
        ELSE IF ~ValidGcmTagLength(Len(tag))
            THEN Threw(InvalidTagLength, <<"createDecipheriv", "setAuthTag">>)
        ELSE IF ~GcmTagMatches(key, iv, ciphertext, tag)
            THEN Threw(AuthenticationFailed,
                       <<"createDecipheriv", "setAuthTag", "update", "final">>)
        ELSE Returned(Utf8Decode(GcmPlaintext(key, iv, ciphertext)),
                      <<"createDecipheriv", "setAuthTag", "update", "final">>)

\* Variants of hybridEncrypt: a symmetric key kept in the module and used by every
\* call, and a call that wraps the nonce where it should wrap the key.
HybridEncryptStaticKey(publicKey, plaintext, symmetricKey, iv, seed) ==
    [encrypted |-> SymmetricEncrypt(RandomBytes(KeyLen, 1), plaintext, iv),
     wrappedKey |-> RsaEncrypt(publicKey, RandomBytes(KeyLen, 1), seed)]

HybridEncryptWrapsIv(publicKey, plaintext, symmetricKey, iv, seed) ==
    [encrypted |-> SymmetricEncrypt(symmetricKey, plaintext, iv),
     wrappedKey |-> RsaEncrypt(publicKey, iv, seed)]

\* hybridEncrypt(publicKey, plaintext); symmetricKey is what `await randomBytes(32)`
\* returned, iv and seed are the draws of symmetricEncrypt and of rsaEncrypt.
HybridEncrypt(publicKey, plaintext, symmetricKey, iv, seed) ==
    [encrypted |-> SymmetricEncrypt(symmetricKey, plaintext, iv),
     wrappedKey |-> RsaEncrypt(publicKey, symmetricKey, seed)]

\* A variant of hybridDecrypt that goes on to the envelope when the unwrap failed,
\* with the wrapped bytes in place of the key.
HybridDecryptOpensAnyway(privateKey, wrappedKey, message) ==
    LET symmetricKey == RsaDecrypt(privateKey, wrappedKey)
        decrypted == SymmetricDecrypt(IF symmetricKey.ok THEN symmetricKey.val ELSE wrappedKey,
                                      message)
    IN  [decrypted EXCEPT !.ops = symmetricKey.ops \o decrypted.ops]

\* hybridDecrypt(privateKey, wrappedKey, message): an error of either step
\* propagates; the final toString('utf8') of a string is the string.
HybridDecrypt(privateKey, wrappedKey, message) ==
    LET symmetricKey == RsaDecrypt(privateKey, wrappedKey)
    IN  IF ~symmetricKey.ok THEN symmetricKey
        ELSE LET decrypted == SymmetricDecrypt(symmetricKey.val, message)
             IN  [decrypted EXCEPT !.ops = symmetricKey.ops \o decrypted.ops]

(***************************************************************************)
(* ch7-ch8-browser-cryptography/hybrid-rsa.js                              *)
(* A symmetric CryptoKey is a record of its raw bytes, its usages and its  *)
(* extractable flag; an RSA CryptoKey is the number of its key pair.       *)
(***************************************************************************)
WebIvLen == 16      \* bytes of the AES-GCM IV of the browser sample

OperationError == "OperationError"
InvalidAccessError == "InvalidAccessError"
DataError == "DataError"

\* crypto.subtle.generateKey({name: 'AES-GCM', length: 256}, true, ['encrypt'])
GenerateAesKey(raw) == [raw |-> raw, usages |-> {"encrypt"}, extractable |-> TRUE]

\* crypto.subtle.encrypt({name: 'AES-GCM', iv}, key, data): the ciphertext with the
\* 16-byte tag appended.
SubtleEncrypt(iv, key, data) ==
    IF "encrypt" \notin key.usages THEN Threw(InvalidAccessError, <<"encrypt">>)
    ELSE LET ciphertext == GcmCiphertext(key.raw, iv, data)
         IN  Returned(ciphertext \o GcmAuthTag(key.raw, iv, ciphertext), <<"encrypt">>)

\* crypto.subtle.decrypt({name: 'AES-GCM', iv}, key, data): the last 16 bytes of
\* the data are the tag.
SubtleDecrypt(iv, key, data) ==
    IF "decrypt" \notin key.usages THEN Threw(InvalidAccessError, <<"decrypt">>)
    ELSE IF Len(data) < TagLen THEN Threw(OperationError, <<"decrypt">>)
    ELSE LET ciphertext == Slice(data, 0, Len(data) - TagLen)
             tag == SliceFrom(data, Len(data) - TagLen)
         IN  IF tag # GcmAuthTag(key.raw, iv, ciphertext)
                 THEN Threw(OperationError, <<"decrypt">>)
             ELSE Returned(GcmPlaintext(key.raw, iv, ciphertext), <<"decrypt">>)

\* A variant of the browser's symmetricEncrypt that writes the layout of the Node
\* samples.
WebSymmetricEncryptTagFirst(symmetricKey, plaintext, iv) ==
    LET encrypted == SubtleEncrypt(iv, symmetricKey, plaintext)
    IN  IF ~encrypted.ok THEN encrypted
        ELSE Returned(iv \o SliceFrom(encrypted.val, Len(encrypted.val) - TagLen)
                         \o Slice(encrypted.val, 0, Len(encrypted.val) - TagLen),
                      encrypted.ops)

\* symmetricEncrypt(symmetricKey, plaintext); iv is what getRandomValues wrote
\* into the 16-byte array.
WebSymmetricEncrypt(symmetricKey, plaintext, iv) ==
    LET encrypted == SubtleEncrypt(iv, symmetricKey, plaintext)
    IN  IF ~encrypted.ok THEN encrypted
        ELSE Returned(iv \o encrypted.val, encrypted.ops)

\* symmetricDecrypt(symmetricKey, ciphertext)
WebSymmetricDecrypt(symmetricKey, ciphertext) ==
    LET iv == Slice(ciphertext, 0, 16)
        encrypted == SliceFrom(ciphertext, 16)
    IN  SubtleDecrypt(iv, symmetricKey, encrypted)

\* rsaKeyWrap(publicKey, key): wrapKey exports the raw key, which the key must
\* allow, and encrypts it with RSA-OAEP.
RsaKeyWrap(publicKey, key, seed) ==
    IF ~key.extractable THEN Threw(InvalidAccessError, <<"wrapKey">>)
    ELSE Returned(<< <<"oaep", publicKey, seed, Name(key.raw), 0>> >>, <<"wrapKey">>)

\* rsaKeyUnwrap(privateKey, wrappedKey): unwrapKey decrypts with RSA-OAEP and
\* imports the bytes as a non-extractable AES-GCM key for decryption only.
RsaKeyUnwrap(privateKey, wrappedKey) ==
    IF ~(/\ Len(wrappedKey) = 1
         /\ wrappedKey[1][1] = "oaep"
         /\ wrappedKey[1][2] = privateKey
         /\ wrappedKey[1][5] = 0)
        THEN Threw(OperationError, <<"unwrapKey">>)
    ELSE LET raw == Denote(wrappedKey[1][4])
         IN  IF Len(raw) \notin {16, 24, 32} THEN Threw(DataError, <<"unwrapKey">>)
             ELSE Returned([raw |-> raw, usages |-> {"decrypt"}, extractable |-> FALSE],
                           <<"unwrapKey">>)

\* hybridEncrypt(publicKey, plaintext); raw is the key material generateKey drew.
WebHybridEncrypt(publicKey, plaintext, raw, iv, seed) ==
    LET symmetricKey == GenerateAesKey(raw)
        encrypted == WebSymmetricEncrypt(symmetricKey, plaintext, iv)
        wrappedKey == RsaKeyWrap(publicKey, symmetricKey, seed)
    IN  IF ~encrypted.ok THEN encrypted
        ELSE IF ~wrappedKey.ok THEN wrappedKey
        ELSE Returned([encrypted |-> encrypted.val, wrappedKey |-> wrappedKey.val],
                      <<"generateKey">> \o encrypted.ops \o wrappedKey.ops)

\* hybridDecrypt(privateKey, wrappedKey, message)
WebHybridDecrypt(privateKey, wrappedKey, message) ==
    LET symmetricKey == RsaKeyUnwrap(privateKey, wrappedKey)
    IN  IF ~symmetricKey.ok THEN symmetricKey
        ELSE LET decrypted == WebSymmetricDecrypt(symmetricKey.val, message)
             IN  [decrypted EXCEPT !.ops = symmetricKey.ops \o decrypted.ops]

(***************************************************************************)
(* What can reach an open call in place of a sealed blob: the blob, the    *)
(* blob with one bit flipped, a prefix of the blob, the blob with a byte   *)
(* appended.                                                               *)
(***************************************************************************)
FlipBits == {0, 7}

Flipped(blob) == {FlipBit(blob, pos, j) : pos \in 1..Len(blob), j \in FlipBits}
Truncated(blob) == {SubSeq(blob, 1, n) : n \in 0..(Len(blob) - 1)}
Messages(blob) == {blob} \cup Flipped(blob) \cup Truncated(blob) \cup {Append(blob, Plain(0))}

\* For the hybrid scripts: the first and the last byte altered, and a cut inside
\* the header.
HybridMessages(blob) ==
    {blob, FlipBit(blob, 1, 0), FlipBit(blob, Len(blob), 7), Slice(blob, 0, 20)}
WrappedKeys(wrappedKey) == {wrappedKey, FlipBit(wrappedKey, 1, 0)}

Pairs == 1..MaxPairs

\* The bytes the browser script passes as plaintext: TextEncoder.encode of a string.
WebPlaintexts == {Utf8Encode(str) : str \in Strings}

(***************************************************************************)
(* The scripts as state machines.                                          *)
(***************************************************************************)
NoCall == [fn |-> "none", key |-> <<>>, priv |-> 0, wrappedKey |-> <<>>, msg |-> <<>>,
           ok |-> FALSE, val |-> <<>>, err |-> "", ops |-> <<>>]
NoSeal == [key |-> <<>>, plaintext |-> <<>>, iv |-> <<>>, blob |-> <<>>,
           pair |-> 0, wrappedKey |-> <<>>]

NoUsers == [name \in {} |-> 0]
NoStream == [fn |-> "none"]
NoKeyPairs == [keyId \in {} |-> 0]
NoClients == [c \in {} |-> 0]

Opened == call.fn \in {"decrypt", "hybridDecrypt"}

\* aes-256-gcm.js
InitGcm ==
    /\ prog = "aes-256-gcm"
    /\ rng = 0
    /\ keys = {}
    /\ used = {}
    /\ last = NoSeal
    /\ call = NoCall
    /\ users = NoUsers
    /\ stream = NoStream
    /\ keyPairs = NoKeyPairs
    /\ clients = NoClients
    /\ served = <<>>

\* const key = await randomBytes(32)
GenerateKey ==
    /\ prog = "aes-256-gcm"
    /\ ~Opened
    /\ rng < MaxDraws
    /\ rng' = rng + 1
    /\ keys' = keys \cup {RandomBytes(KeyLen, rng + 1)}
    /\ UNCHANGED <<prog, used, last, call, users, stream, exchange>>

\* const encrypted = await encrypt(key, plaintext)
EncryptCall ==
    /\ prog = "aes-256-gcm"
    /\ ~Opened
    /\ rng < MaxDraws
    /\ \E key \in keys, plaintext \in Strings :
        LET blob == Encrypt(key, plaintext, RandomBytes(NonceLen, rng + 1))
        IN  /\ rng' = rng + 1
            /\ used' = used \cup {[key |-> key, iv |-> Slice(blob, 0, NonceLen),
                                   from |-> rng, to |-> rng + 1]}
            /\ last' = [key |-> key, plaintext |-> plaintext,
                        iv |-> Slice(blob, 0, NonceLen), blob |-> blob,
                        pair |-> 0, wrappedKey |-> <<>>]
            /\ call' = [fn |-> "encrypt", key |-> key, priv |-> 0, wrappedKey |-> <<>>,
                        msg |-> <<>>, ok |-> TRUE, val |-> blob, err |-> "",
                        ops |-> <<"randomBytes", "createCipheriv", "update", "final",
                                  "getAuthTag">>]
    /\ UNCHANGED <<prog, keys, users, stream, exchange>>

\* const decrypted = decrypt(key, encrypted)
DecryptCall ==
    /\ prog = "aes-256-gcm"
    /\ ~Opened
    /\ last # NoSeal
    /\ \E key \in keys, message \in Messages(last.blob) :
        LET r == Decrypt(key, message)
        IN  call' = [fn |-> "decrypt", key |-> key, priv |-> 0, wrappedKey |-> <<>>,
                     msg |-> message, ok |-> r.ok, val |-> r.val, err |-> r.err,
                     ops |-> r.ops]
    /\ UNCHANGED <<prog, rng, keys, used, last, users, stream, exchange>>

NextGcm == GenerateKey \/ EncryptCall \/ DecryptCall

SpecGcm == InitGcm /\ [][NextGcm]_vars

\* rsa-hybrid-encrypt.js and hybrid-rsa.js
InitHybrid ==
    /\ prog \in {"rsa-hybrid-encrypt", "hybrid-rsa"}
    /\ rng = 0
    /\ keys = {}
    /\ used = {}
    /\ last = NoSeal
    /\ call = NoCall
    /\ users = NoUsers
    /\ stream = NoStream
    /\ keyPairs = NoKeyPairs
    /\ clients = NoClients
    /\ served = <<>>

\* const {wrappedKey, encrypted} = await hybridEncrypt(publicKey, plaintext)
HybridEncryptCall ==
    /\ prog = "rsa-hybrid-encrypt"
    /\ ~Opened
    /\ Cardinality(used) < MaxSeals
    /\ \E publicKey \in Pairs, plaintext \in Strings :
        LET r == HybridEncrypt(publicKey, plaintext, RandomBytes(KeyLen, rng + 1),
                               RandomBytes(NonceLen, rng + 2), rng + 3)
            key == RsaDecrypt(publicKey, r.wrappedKey).val
        IN  /\ rng' = rng + 3
            /\ used' = used \cup {[key |-> key, iv |-> Slice(r.encrypted, 0, NonceLen),
                                   from |-> rng, to |-> rng + 3]}
            /\ last' = [key |-> key, plaintext |-> plaintext,
                        iv |-> Slice(r.encrypted, 0, NonceLen), blob |-> r.encrypted,
                        pair |-> publicKey, wrappedKey |-> r.wrappedKey]
            /\ call' = [fn |-> "hybridEncrypt", key |-> <<>>, priv |-> 0,
                        wrappedKey |-> r.wrappedKey, msg |-> <<>>, ok |-> TRUE,
                        val |-> r.encrypted, err |-> "",
                        ops |-> <<"randomBytes", "randomBytes", "createCipheriv",
                                  "update", "final", "getAuthTag", "publicEncrypt">>]
    /\ UNCHANGED <<prog, keys, users, stream, exchange>>

\* const decrypted = hybridDecrypt(privateKey, wrappedKey, encrypted)
HybridDecryptCall ==
    /\ prog = "rsa-hybrid-encrypt"
    /\ ~Opened
    /\ last # NoSeal
    /\ \E privateKey \in Pairs, wrappedKey \in WrappedKeys(last.wrappedKey),
          message \in HybridMessages(last.blob) :
        LET r == HybridDecrypt(privateKey, wrappedKey, message)
        IN  call' = [fn |-> "hybridDecrypt", key |-> <<>>, priv |-> privateKey,
                     wrappedKey |-> wrappedKey, msg |-> message, ok |-> r.ok,
                     val |-> r.val, err |-> r.err, ops |-> r.ops]
    /\ UNCHANGED <<prog, rng, keys, used, last, users, stream, exchange>>

\* const {wrappedKey, encrypted} = await hybridEncrypt(keyPair.publicKey, plaintext)
WebHybridEncryptCall ==
    /\ prog = "hybrid-rsa"
    /\ ~Opened
    /\ Cardinality(used) < MaxSeals
    /\ \E publicKey \in Pairs, plaintext \in WebPlaintexts :
        LET r == WebHybridEncrypt(publicKey, plaintext, RandomBytes(KeyLen, rng + 1),
                                  RandomBytes(WebIvLen, rng + 2), rng + 3)
            key == RsaKeyUnwrap(publicKey, r.val.wrappedKey).val.raw
        IN  /\ r.ok
            /\ rng' = rng + 3
            /\ used' = used \cup {[key |-> key, iv |-> Slice(r.val.encrypted, 0, WebIvLen),
                                   from |-> rng, to |-> rng + 3]}
            /\ last' = [key |-> key, plaintext |-> plaintext,
                        iv |-> Slice(r.val.encrypted, 0, WebIvLen),
                        blob |-> r.val.encrypted,
                        pair |-> publicKey, wrappedKey |-> r.val.wrappedKey]
            /\ call' = [fn |-> "hybridEncrypt", key |-> <<>>, priv |-> 0,
                        wrappedKey |-> r.val.wrappedKey, msg |-> <<>>, ok |-> TRUE,
                        val |-> r.val.encrypted, err |-> "", ops |-> r.ops]
    /\ UNCHANGED <<prog, keys, users, stream, exchange>>

\* const decrypted = await hybridDecrypt(keyPair.privateKey, wrappedKey, encrypted)
WebHybridDecryptCall ==
    /\ prog = "hybrid-rsa"
    /\ ~Opened
    /\ last # NoSeal
    /\ \E privateKey \in Pairs, wrappedKey \in WrappedKeys(last.wrappedKey),
          message \in HybridMessages(last.blob) :
        LET r == WebHybridDecrypt(privateKey, wrappedKey, message)
        IN  call' = [fn |-> "hybridDecrypt", key |-> <<>>, priv |-> privateKey,
                     wrappedKey |-> wrappedKey, msg |-> message, ok |-> r.ok,
                     val |-> r.val, err |-> r.err, ops |-> r.ops]
    /\ UNCHANGED <<prog, rng, keys, used, last, users, stream, exchange>>

NextHybrid ==
    HybridEncryptCall \/ HybridDecryptCall \/ WebHybridEncryptCall \/ WebHybridDecryptCall

SpecHybrid == InitHybrid /\ [][NextHybrid]_vars

\* Every script that seals with AES-GCM.
InitEnvelope == InitGcm \/ InitHybrid
NextEnvelope == NextGcm \/ NextHybrid
SpecEnvelope == InitEnvelope /\ [][NextEnvelope]_vars

(***************************************************************************)
(* ch4-symmetric-encryption/key-wrap.js                                    *)
(***************************************************************************)
SaltLen == 16       \* bytes of an Argon2 salt
HashLength == 64    \* bytes deriveKeyHash asks Argon2 for

\* `undefined`, and a value that is not.
Undefined == [undefined |-> TRUE]
Defined(fields) == [undefined |-> FALSE] @@ fields

TypeErrorUndefined == "TypeError: Cannot read properties of undefined"
InvalidPassphrase == "The passphrase is not correct"
AesKwIntegrityError == "bad decrypt"

\* buf.toString('hex'): two characters for every byte, high nibble first.
HexDigits == <<"0", "1", "2", "3", "4", "5", "6", "7", "8", "9", "a", "b", "c", "d", "e", "f">>
ToHex(buf) ==
    [i \in 1..(2 * Len(buf)) |->
        LET b == buf[(i + 1) \div 2]
        IN  IF IsPlain(b)
                THEN <<"digit", HexDigits[(IF i % 2 = 1 THEN b[2] \div 16 ELSE b[2] % 16) + 1]>>
            ELSE <<"nibble", b, i % 2>>]

\* argon2.hash(plain, {raw: true, hashLength, salt, type: argon2id, timeCost: 3,
\* memoryCost: 4096, parallelism: 1, version: 0x13}): the library hashes the UTF-8
\* bytes of a string.
Argon2Hash(plain, salt, hashLength) ==
    [i \in 1..hashLength |-> <<"kdf", Utf8Encode(plain), Name(salt), hashLength, i>>]

\* Buffer.from('A6A6A6A6A6A6A6A6', 'hex')
AesKwIv == [i \in 1..8 |-> Plain(166)]

\* createCipheriv('id-aes256-wrap', kek, iv) with update(data) and final(): RFC 3394
\* adds one 8-byte block to the data.
AesKwWrap(kek, iv, data) ==
    [i \in 1..(Len(data) + 8) |-> <<"kw", Name(kek), Name(data), i, 0>>]

\* createDecipheriv('id-aes256-wrap', kek, iv) with update(wrapped) and final(): the
\* integrity check of RFC 3394 fails for any other key and any other bytes.
AesKwUnwrap(kek, iv, wrapped) ==
    IF /\ Len(wrapped) >= 24
       /\ wrapped[1][1] = "kw"
       /\ wrapped = AesKwWrap(kek, iv, Denote(wrapped[1][3]))
        THEN Returned(Denote(wrapped[1][3]), <<"createDecipheriv", "update", "final">>)
    ELSE Threw(AesKwIntegrityError, <<"createDecipheriv", "update", "final">>)

\* A variant of deriveKeyHash whose hash starts one byte early, inside the wrapping key.
DeriveKeyHashOverlapping(passphrase, salt, fails) ==
    IF fails THEN Returned(Undefined, <<"argon2.hash", "console.error">>)
    ELSE LET result == Argon2Hash(passphrase, salt, HashLength)
         IN  Returned(Defined([wrappingKey |-> Slice(result, 0, 32),
                               hash |-> ToHex(SliceFrom(result, 31))]),
                      <<"argon2.hash">>)

\* deriveKeyHash(passphrase, salt); fails says whether argon2.hash rejected.  The
\* catch block logs the error and the function returns undefined.
DeriveKeyHash(passphrase, salt, fails) ==
    IF fails THEN Returned(Undefined, <<"argon2.hash", "console.error">>)
    ELSE LET result == Argon2Hash(passphrase, salt, HashLength)
         IN  Returned(Defined([wrappingKey |-> Slice(result, 0, 32),
                               hash |-> ToHex(SliceFrom(result, 32))]),
                      <<"argon2.hash">>)

\* deriveKey(passphrase, salt, length)
DeriveKey(passphrase, salt, length, fails) ==
    IF fails THEN Returned(Undefined, <<"argon2.hash", "console.error">>)
    ELSE Returned(Defined([bytes |-> Argon2Hash(passphrase, salt, length)]),
                  <<"argon2.hash">>)

\* A variant of createUser that wraps the salt where the user key belongs.
CreateUserWrapsSalt(passphrase, salt, userKey, fails) ==
    LET derived == DeriveKeyHash(passphrase, salt, fails)
    IN  IF derived.val.undefined
            THEN Threw(TypeErrorUndefined,
                       <<"randomBytes">> \o derived.ops \o <<"randomBytes">>)
        ELSE Returned([salt |-> salt,
                       wrappedKey |-> AesKwWrap(derived.val.wrappingKey, AesKwIv, salt),
                       hash |-> derived.val.hash],
                      <<"randomBytes">> \o derived.ops
                          \o <<"randomBytes", "createCipheriv", "update", "final">>)

\* createUser(passphrase); salt and userKey are what the two `await randomBytes`
\* returned.  Reading derived.wrappingKey of undefined throws a TypeError.
CreateUser(passphrase, salt, userKey, fails) ==
    LET derived == DeriveKeyHash(passphrase, salt, fails)
    IN  IF derived.val.undefined
            THEN Threw(TypeErrorUndefined,
                       <<"randomBytes">> \o derived.ops \o <<"randomBytes">>)
        ELSE Returned([salt |-> salt,
                       wrappedKey |-> AesKwWrap(derived.val.wrappingKey, AesKwIv, userKey),
                       hash |-> derived.val.hash],
                      <<"randomBytes">> \o derived.ops
                          \o <<"randomBytes", "createCipheriv", "update", "final">>)

\* Variants of getUserKey: one without the comparison of the hashes, one that
\* unwraps before it compares.
GetUserKeyNoCheck(profile, passphrase, fails) ==
    LET derived == DeriveKeyHash(passphrase, profile.salt, fails)
    IN  IF derived.val.undefined THEN Threw(TypeErrorUndefined, derived.ops)
        ELSE LET userKey == AesKwUnwrap(derived.val.wrappingKey, AesKwIv, profile.wrappedKey)
             IN  [userKey EXCEPT !.ops = derived.ops \o userKey.ops]

GetUserKeyUnwrapFirst(profile, passphrase, fails) ==
    LET derived == DeriveKeyHash(passphrase, profile.salt, fails)
    IN  IF derived.val.undefined THEN Threw(TypeErrorUndefined, derived.ops)
        ELSE LET userKey == AesKwUnwrap(derived.val.wrappingKey, AesKwIv, profile.wrappedKey)
             IN  IF derived.val.hash # profile.hash
                     THEN Threw(InvalidPassphrase, derived.ops \o userKey.ops \o <<"compare">>)
                 ELSE [userKey EXCEPT !.ops = derived.ops \o userKey.ops \o <<"compare">>]

\* getUserKey(profile, passphrase).  Reading derived.hash of undefined throws a
\* TypeError before anything is compared.
GetUserKey(profile, passphrase, fails) ==
    LET derived == DeriveKeyHash(passphrase, profile.salt, fails)
    IN  IF derived.val.undefined THEN Threw(TypeErrorUndefined, derived.ops)
        ELSE IF derived.val.hash # profile.hash
            THEN Threw(InvalidPassphrase, derived.ops \o <<"compare">>)
        ELSE LET userKey == AesKwUnwrap(derived.val.wrappingKey, AesKwIv, profile.wrappedKey)
             IN  [userKey EXCEPT !.ops = derived.ops \o <<"compare">> \o userKey.ops]

\* The passphrases a user may type: any string but the empty one.
Passphrases == Strings \ {<<>>}

\* 'correct horse battery staple'
ExamplePassphrase ==
    <<99, 111, 114, 114, 101, 99, 116, 32, 104, 111, 114, 115, 101, 32,
      98, 97, 116, 116, 101, 114, 121, 32, 115, 116, 97, 112, 108, 101>>

\* Buffer.from('WiHmGLjgzYESy3eAW45W0Q==', 'base64')
ExampleSalt ==
    <<Plain(90), Plain(33), Plain(230), Plain(24), Plain(184), Plain(224), Plain(205),
      Plain(129), Plain(18), Plain(203), Plain(119), Plain(128), Plain(91), Plain(142),
      Plain(86), Plain(209)>>

NoDerived == [ok |-> FALSE, val |-> Undefined, err |-> "", ops |-> <<>>]
NoProfile == [salt |-> <<>>, wrappedKey |-> <<>>, hash |-> <<>>]
NoKwCall == [fn |-> "none", passphrase |-> <<>>, length |-> 0, fails |-> FALSE,
             profile |-> NoProfile, derived |-> NoDerived,
             ok |-> FALSE, val |-> <<>>, err |-> "", ops |-> <<>>]

\* The profile as getUserKey may find it in storage: as createUser returned it, or
\* with a damaged wrappedKey, or with a damaged hash.
Profiles(profile) ==
    {profile,
     [profile EXCEPT !.wrappedKey = FlipBit(profile.wrappedKey, 1, 0)],
     [profile EXCEPT !.hash = <<<<"digit", "0">>>> \o Tail(profile.hash)]}

\* The salts and the lengths given to deriveKey.
Salts == {ExampleSalt, FlipBit(ExampleSalt, 1, 0)}
KeyLengths == {16, 32}
NoUser == [passphrase |-> <<>>, userKey |-> <<>>]

InitKeyWrap ==
    /\ prog \in {"key-wrap", "key-derivation"}
    /\ rng = 0
    /\ keys = {}
    /\ used = {}
    /\ last = NoUser
    /\ call = NoKwCall
    /\ users = NoUsers
    /\ stream = NoStream
    /\ keyPairs = NoKeyPairs
    /\ clients = NoClients
    /\ served = <<>>

\* const newUser = await createUser('passw0rd'); users['alex'] = newUser
CreateUserCall ==
    /\ prog = "key-wrap"
    /\ call.fn = "none"
    /\ \E passphrase \in Passphrases, fails \in BOOLEAN :
        LET salt == RandomBytes(SaltLen, rng + 1)
            userKey == RandomBytes(KeyLen, rng + 2)
            r == CreateUser(passphrase, salt, userKey, fails)
        IN  /\ rng' = rng + 2
            /\ call' = [fn |-> "createUser", passphrase |-> passphrase, length |-> 0,
                        fails |-> fails,
                        profile |-> IF r.ok THEN r.val ELSE NoProfile,
                        derived |-> DeriveKeyHash(passphrase, salt, fails),
                        ok |-> r.ok, val |-> <<>>, err |-> r.err, ops |-> r.ops]
            /\ IF r.ok
                   THEN /\ users' = [name \in {"alex"} |-> r.val]
                        /\ keys' = {userKey}
                        /\ last' = [passphrase |-> passphrase, userKey |-> userKey]
               ELSE UNCHANGED <<users, keys, last>>
    /\ UNCHANGED <<prog, used, stream, exchange>>

\* A variant of the login that drops the wrapped key of the stored profile when the
\* attempt fails.
GetUserKeyCallLocking ==
    /\ prog = "key-wrap"
    /\ call.fn = "createUser"
    /\ "alex" \in DOMAIN users
    /\ \E passphrase \in Passphrases, fails \in BOOLEAN, profile \in Profiles(users["alex"]) :
        LET r == GetUserKey(profile, passphrase, fails)
        IN  /\ call' = [fn |-> "getUserKey", passphrase |-> passphrase, length |-> 0,
                        fails |-> fails, profile |-> profile,
                        derived |-> DeriveKeyHash(passphrase, profile.salt, fails),
                        ok |-> r.ok, val |-> r.val, err |-> r.err, ops |-> r.ops]
            /\ users' = IF r.ok THEN users
                        ELSE [users EXCEPT !["alex"].wrappedKey = <<>>]
    /\ UNCHANGED <<prog, rng, keys, used, last, stream, exchange>>

\* const userKey = await getUserKey(users['alex'], 'passw0rd')
\* getUserKey assigns to nothing but its own constants.
GetUserKeyCall ==
    /\ prog = "key-wrap"
    /\ call.fn = "createUser"
    /\ "alex" \in DOMAIN users
    /\ \E passphrase \in Passphrases, fails \in BOOLEAN, profile \in Profiles(users["alex"]) :
        LET r == GetUserKey(profile, passphrase, fails)
        IN  call' = [fn |-> "getUserKey", passphrase |-> passphrase, length |-> 0,
                     fails |-> fails, profile |-> profile,
                     derived |-> DeriveKeyHash(passphrase, profile.salt, fails),
                     ok |-> r.ok, val |-> r.val, err |-> r.err, ops |-> r.ops]
    /\ UNCHANGED <<prog, rng, keys, used, last, users, stream, exchange>>

\* const key128 = await deriveKey(passphrase, salt, 16), and again for key256; the
\* script calls toString on the result, a TypeError on undefined.  Every call is
\* kept in the history with its arguments and what it returned.
DeriveKeyCall ==
    /\ prog = "key-derivation"
    /\ call.fn = "none" \/ (call.fn = "deriveKey" /\ call.ok)
    /\ Cardinality(used) < MaxDerivations
    /\ \E salt \in Salts, length \in KeyLengths, fails \in BOOLEAN :
        LET r == DeriveKey(ExamplePassphrase, salt, length, fails)
        IN  /\ call' = [fn |-> "deriveKey", passphrase |-> ExamplePassphrase,
                        length |-> length, fails |-> fails,
                        profile |-> [NoProfile EXCEPT !.salt = salt], derived |-> r,
                        ok |-> ~r.val.undefined,
                        val |-> IF r.val.undefined THEN <<>> ELSE r.val.bytes,
                        err |-> IF r.val.undefined THEN TypeErrorUndefined ELSE "",
                        ops |-> r.ops]
            /\ used' = used \cup {[n |-> Cardinality(used) + 1,
                                   passphrase |-> ExamplePassphrase, salt |-> salt,
                                   length |-> length, returned |-> r.val]}
    /\ UNCHANGED <<prog, rng, keys, last, users, stream, exchange>>

NextKeyWrap == CreateUserCall \/ GetUserKeyCall \/ DeriveKeyCall

SpecKeyWrap == InitKeyWrap /\ [][NextKeyWrap]_vars

(***************************************************************************)
(* ch4-symmetric-encryption/aes-stream.js                                  *)
(* The variable stream holds the call in progress: the chunks the source   *)
(* has still to deliver (src) and its state, the bytes fed to the cipher   *)
(* (fed), the chunks written to the destination (dest) and its state,      *)
(* whether the pipes are in place, what became of the promise, and whether *)
(* an 'error' event nobody listens to has ended the process (crashed).     *)
(* The cipher is a Transform whose update is synchronous: a chunk the      *)
(* source delivers is encrypted and written to the destination in one      *)
(* step.                                                                   *)
(***************************************************************************)
IvIsNull == "iv is null"

\* Buffer.from('P6PXZieOwqXRRFuYd02MlJYpPAW7rbn5lE2q1Ke259I', 'base64')
StreamKey ==
    [i \in 1..32 |->
        Plain(<<63, 163, 215, 102, 39, 142, 194, 165, 209, 68, 91, 152, 119, 77, 140, 148,
                150, 41, 60, 5, 187, 173, 185, 249, 148, 77, 170, 212, 167, 182, 231,
                210>>[i])]

RECURSIVE Concat(_)
Concat(chunks) == IF chunks = <<>> THEN <<>> ELSE Head(chunks) \o Concat(Tail(chunks))

NoSealed == [iv |-> <<>>, tag |-> <<>>, plaintext |-> <<>>, file |-> <<>>, read |-> <<>>]

\* A variant of the start of encrypt that sets the pipes up without writing the IV.
StreamEncryptStartNoIv(key, source, iv) ==
    [fn |-> "encrypt", key |-> key, iv |-> iv, tag |-> <<>>, input |-> source,
     src |-> source, srcState |-> "open", fed |-> <<>>, dest |-> <<>>,
     destState |-> "open", piped |-> TRUE, promise |-> "pending", val |-> <<>>,
     err |-> "", ops |-> <<"randomBytes", "createCipheriv", "pipe">>,
     crashed |-> FALSE, sealed |-> NoSealed, flushed |-> 0, finished |-> FALSE]

\* encrypt(key, source, destination) up to the end of the Promise executor: the IV
\* is drawn, the cipher created, the IV written to the destination, the pipes set
\* up.  An exception inside the executor rejects the promise.
StreamEncryptStart(key, source, iv) ==
    IF GcmInitError(key, iv) # ""
        THEN [fn |-> "encrypt", key |-> key, iv |-> iv, tag |-> <<>>, input |-> source,
              src |-> source, srcState |-> "open", fed |-> <<>>, dest |-> <<>>,
              destState |-> "open", piped |-> FALSE, promise |-> "rejected",
              val |-> <<>>, err |-> GcmInitError(key, iv),
              ops |-> <<"randomBytes", "createCipheriv">>,
              crashed |-> FALSE, sealed |-> NoSealed, flushed |-> 0, finished |-> FALSE]
    ELSE [fn |-> "encrypt", key |-> key, iv |-> iv, tag |-> <<>>, input |-> source,
          src |-> source, srcState |-> "open", fed |-> <<>>, dest |-> <<iv>>,
          destState |-> "open", piped |-> TRUE, promise |-> "pending", val |-> <<>>,
          err |-> "", ops |-> <<"randomBytes", "createCipheriv", "write", "pipe">>,
          crashed |-> FALSE, sealed |-> NoSealed, flushed |-> 0, finished |-> FALSE]

\* decrypt(key, tag, source, destination) up to the first await: the 'readable'
\* listener is registered on the source.
StreamDecryptStart(key, tag, source, sealed) ==
    [fn |-> "decrypt", key |-> key, iv |-> <<>>, tag |-> tag, input |-> source,
     src |-> source, srcState |-> "open", fed |-> <<>>, dest |-> <<>>,
     destState |-> "open", piped |-> FALSE, promise |-> "pending", val |-> <<>>,
     err |-> "", ops |-> <<>>, crashed |-> FALSE, sealed |-> sealed,
     flushed |-> 0, finished |-> FALSE]

\* decrypt, from the first 'readable' event to the end of the Promise executor.
\* source.read(12) returns null unless 12 bytes are buffered (the first chunk, or
\* nothing when the source is empty); a null IV, and an exception of
\* createDecipheriv or setAuthTag inside the executor, reject the promise.
StreamReadable(st) ==
    LET buffered == IF st.src = <<>> THEN <<>> ELSE Head(st.src)
        iv == Slice(buffered, 0, 12)
        rest == SliceFrom(buffered, 12)
        failed(e, o) == [st EXCEPT !.promise = "rejected", !.err = e, !.ops = o]
    IN  IF Len(buffered) < 12 THEN failed(IvIsNull, <<"read">>)
        ELSE IF GcmInitError(st.key, iv) # ""
            THEN failed(GcmInitError(st.key, iv), <<"read", "createDecipheriv">>)
        ELSE IF ~ValidGcmTagLength(Len(st.tag))
            THEN failed(InvalidTagLength, <<"read", "createDecipheriv", "setAuthTag">>)
        ELSE [st EXCEPT !.iv = iv,
                        !.src = (IF rest = <<>> THEN <<>> ELSE <<rest>>) \o Tail(st.src),
                        !.piped = TRUE,
                        !.ops = <<"read", "createDecipheriv", "setAuthTag", "pipe">>]

\* source.pipe(cipher).pipe(destination), a 'data' event of the source: the chunk
\* goes through cipher.update and the result is written to the destination (it
\* stays in the cipher when the destination has been unpiped).
StreamTransform(st) ==
    LET chunk == Head(st.src)
        fed == st.fed \o chunk
        out == IF st.fn = "encrypt"
                   THEN Slice(GcmCiphertext(st.key, st.iv, fed), Len(st.fed), Len(fed))
               ELSE Slice(GcmPlaintext(st.key, st.iv, fed), Len(st.fed), Len(fed))
    IN  [st EXCEPT !.src = Tail(st.src),
                   !.fed = fed,
                   !.dest = IF st.destState = "open" THEN Append(st.dest, out) ELSE st.dest,
                   !.ops = st.ops \o (IF st.destState = "open" THEN <<"update", "write">>
                                      ELSE <<"update">>)]

\* A variant of what a source error does: the cipher is ended as if the source had
\* ended, and the call resolves with the tag of what was read so far.
StreamSourceErrorEndsCipher(st, handled) ==
    [st EXCEPT !.srcState = "errored", !.promise = "resolved",
               !.val = GcmAuthTag(st.key, st.iv, GcmCiphertext(st.key, st.iv, st.fed)),
               !.ops = st.ops \o <<"final", "getAuthTag">>]

\* An 'error' event of the source.  pipe() forwards no error and does not end the
\* cipher: neither 'end' nor 'error' of the cipher follows.  Without a listener on
\* the source the event is an uncaught exception.
StreamSourceError(st, handled) ==
    [st EXCEPT !.srcState = "errored", !.crashed = ~handled]

\* An 'error' event of the destination: pipe() unpipes the cipher from it, which
\* pauses the readable side of the cipher.
StreamDestinationError(st, handled) ==
    [st EXCEPT !.destState = "errored", !.crashed = ~handled]

\* The 'end' event of the source: pipe() calls cipher.end(), whose flush runs
\* final().  The decipher emits 'error' when the tag does not match; otherwise the
\* cipher emits 'end' once its readable side is drained, which a paused one never
\* is, and the handler resolves (encrypt: with cipher.getAuthTag()).
StreamSourceEnd(st) ==
    LET ended == [st EXCEPT !.srcState = "ended", !.ops = st.ops \o <<"final">>]
    IN  IF st.fn = "decrypt" /\ ~GcmTagMatches(st.key, st.iv, st.fed, st.tag)
            THEN [ended EXCEPT !.promise = "rejected", !.err = AuthenticationFailed]
        ELSE IF st.destState # "open" THEN ended
        ELSE IF st.fn = "encrypt"
            THEN [ended EXCEPT !.promise = "resolved",
                               !.val = GcmAuthTag(st.key, st.iv,
                                                  GcmCiphertext(st.key, st.iv, st.fed)),
                               !.destState = "ended",
                               !.ops = st.ops \o <<"final", "getAuthTag">>]
        ELSE [ended EXCEPT !.promise = "resolved", !.destState = "ended"]

\* The destination is a write stream to a file: a chunk written to it reaches the
\* file later, one chunk after the other, and 'finish' is emitted after end() has
\* been called and the last chunk has reached the file.
StreamDestinationFlush(st) == [st EXCEPT !.flushed = st.flushed + 1]
StreamDestinationFinish(st) == [st EXCEPT !.finished = TRUE]

\* The chunks of the file given to encrypt, and the ways the encrypted file may
\* reach decrypt: whole, with its last bit flipped, or cut after 5 bytes; in one
\* chunk or in two.
ChunkAlphabet == {<<Plain(65)>>, <<Plain(66), Plain(67)>>}
RECURSIVE SourcesOfLen(_)
SourcesOfLen(n) ==
    IF n = 0 THEN {<<>>}
    ELSE {<<c>> \o rest : c \in ChunkAlphabet, rest \in SourcesOfLen(n - 1)}
Sources == UNION {SourcesOfLen(n) : n \in 0..MaxChunks}
SplitPoints == {5, 12, 13}
Files(file) == {file, FlipBit(file, Len(file), 0), Slice(file, 0, 5)}
Chunkings(file) ==
    {<<file>>} \cup {<<Slice(file, 0, k), SliceFrom(file, k)>> :
                        k \in {p \in SplitPoints : p < Len(file)}}
Tags(tag) == {tag, FlipBit(tag, 1, 0), Slice(tag, 0, 3)}

InitStream ==
    /\ prog = "aes-stream"
    /\ rng = 0
    /\ keys = {StreamKey}
    /\ used = {}
    /\ last = NoSeal
    /\ call = NoCall
    /\ users = NoUsers
    /\ stream = NoStream
    /\ keyPairs = NoKeyPairs
    /\ clients = NoClients
    /\ served = <<>>

Running == stream.fn # "none" /\ stream.promise = "pending" /\ ~stream.crashed

\* tag = await encrypt(key, inFile, outFile)
StreamEncryptCall ==
    /\ prog = "aes-stream"
    /\ stream.fn = "none"
    /\ \E source \in Sources :
        stream' = StreamEncryptStart(StreamKey, source, RandomBytes(NonceLen, rng + 1))
    /\ rng' = rng + 1
    /\ UNCHANGED <<prog, keys, used, last, call, users, exchange>>

\* await decrypt(key, tag, inFile, outFile), after encrypt has resolved: inFile is
\* a new read stream of the file encrypt wrote to, and delivers what has reached
\* the file.
StreamDecryptCall ==
    /\ prog = "aes-stream"
    /\ stream.fn = "encrypt"
    /\ stream.promise = "resolved"
    /\ ~stream.crashed
    /\ LET read == Concat(SubSeq(stream.dest, 1, stream.flushed))
       IN  \E file \in Files(read), tag \in Tags(stream.val) :
            \E source \in Chunkings(file) :
                stream' = StreamDecryptStart(StreamKey, tag, source,
                                             [iv |-> stream.iv, tag |-> stream.val,
                                              plaintext |-> Concat(stream.input),
                                              file |-> Concat(stream.dest),
                                              read |-> read])
    /\ UNCHANGED <<prog, rng, keys, used, last, call, users, exchange>>

SourceReadable ==
    /\ Running
    /\ stream.fn = "decrypt"
    /\ ~stream.piped
    /\ stream.srcState = "open"
    /\ stream' = StreamReadable(stream)
    /\ UNCHANGED <<prog, rng, keys, used, last, call, users, exchange>>

SourceData ==
    /\ Running
    /\ stream.piped
    /\ stream.srcState = "open"
    /\ stream.src # <<>>
    /\ stream' = StreamTransform(stream)
    /\ UNCHANGED <<prog, rng, keys, used, last, call, users, exchange>>

SourceEnd ==
    /\ Running
    /\ stream.piped
    /\ stream.srcState = "open"
    /\ stream.src = <<>>
    /\ stream' = StreamSourceEnd(stream)
    /\ UNCHANGED <<prog, rng, keys, used, last, call, users, exchange>>

SourceError ==
    /\ Running
    /\ stream.srcState = "open"
    /\ \E handled \in BOOLEAN : stream' = StreamSourceError(stream, handled)
    /\ UNCHANGED <<prog, rng, keys, used, last, call, users, exchange>>

DestinationError ==
    /\ Running
    /\ stream.destState = "open"
    /\ \E handled \in BOOLEAN : stream' = StreamDestinationError(stream, handled)
    /\ UNCHANGED <<prog, rng, keys, used, last, call, users, exchange>>

DestinationFlush ==
    /\ prog = "aes-stream"
    /\ stream.fn \in {"encrypt", "decrypt"}
    /\ ~stream.crashed
    /\ stream.destState # "errored"
    /\ stream.flushed < Len(stream.dest)
    /\ stream' = StreamDestinationFlush(stream)
    /\ UNCHANGED <<prog, rng, keys, used, last, call, users, exchange>>

DestinationFinish ==
    /\ prog = "aes-stream"
    /\ stream.fn \in {"encrypt", "decrypt"}
    /\ ~stream.crashed
    /\ stream.destState = "ended"
    /\ stream.flushed = Len(stream.dest)
    /\ ~stream.finished
    /\ stream' = StreamDestinationFinish(stream)
    /\ UNCHANGED <<prog, rng, keys, used, last, call, users, exchange>>

NextStream ==
    \/ StreamEncryptCall
    \/ StreamDecryptCall
    \/ SourceReadable
    \/ SourceData
    \/ SourceEnd
    \/ SourceError
    \/ DestinationError
    \/ DestinationFlush
    \/ DestinationFinish

SpecStream == InitStream /\ [][NextStream]_vars

(***************************************************************************)
(* Properties.                                                             *)
(***************************************************************************)
\* The latest call opened, with the key of the seal, the blob the latest seal
\* returned.
OpenedSealed == call.fn = "decrypt" /\ call.key = last.key /\ call.msg = last.blob

\* C1, as stated: for every 256-bit key k and every plaintext string p,
\* decrypt(k, encrypt(k, p)) returns exactly p.
C1_RoundTripEveryString == OpenedSealed => (call.ok /\ call.val = last.plaintext)

\* C1, amended: decrypt(k, encrypt(k, p)) always returns a string, and that string
\* is p exactly when p has no unpaired surrogate (an unpaired surrogate is
\* encoded as U+FFFD and comes back as U+FFFD).
C1_RoundTripWellFormed ==
    OpenedSealed => (call.ok /\ (WellFormed(last.plaintext) <=> call.val = last.plaintext))

C1_Witness ==
    OpenedSealed /\ last.plaintext = <<55357, 56832>> /\ call.ok /\ call.val = <<55357, 56832>>

\* The latest call opened, with the private key of the recipient, the two
\* artifacts the latest hybridEncrypt returned.
HybridOpenedSealed ==
    /\ call.fn = "hybridDecrypt"
    /\ call.priv = last.pair
    /\ call.wrappedKey = last.wrappedKey
    /\ call.msg = last.blob

\* C2, as stated: for every key pair and every plaintext p, hybridDecrypt of the
\* two artifacts of hybridEncrypt(pub, p) returns exactly p.
C2_HybridRoundTripEveryPlaintext ==
    HybridOpenedSealed => (call.ok /\ call.val = last.plaintext)

\* C2, amended: hybridDecrypt of the two artifacts always returns; the browser
\* sample, whose plaintext is a buffer, returns exactly the bytes of p; the Node
\* sample, whose plaintext is a string, returns p exactly when p has no unpaired
\* surrogate.
C2_HybridRoundTrip ==
    HybridOpenedSealed =>
        /\ call.ok
        /\ prog = "hybrid-rsa" => call.val = last.plaintext
        /\ prog = "rsa-hybrid-encrypt" =>
               (WellFormed(last.plaintext) <=> call.val = last.plaintext)

C2_Witness ==
    /\ HybridOpenedSealed
    /\ prog = "rsa-hybrid-encrypt"
    /\ last.plaintext = <<55357, 56832>>
    /\ call.ok
    /\ call.val = <<55357, 56832>>

\* First sentence of C3: decrypt returns a plaintext only when the message is
\* bit-for-bit a blob encrypt produced under that same key.
C3_OnlySealedBlobsOpen ==
    (call.fn = "decrypt" /\ call.ok) => (call.msg = last.blob /\ call.key = last.key)

\* Second sentence of C3: a sealed blob with one bit flipped, and an untampered
\* blob under any other key, fail with the authentication failure.
C3_FlippedOrOtherKeyFails ==
    (/\ call.fn = "decrypt"
     /\ \/ call.msg \in Flipped(last.blob)
        \/ call.msg = last.blob /\ call.key # last.key)
        => (~call.ok /\ call.err = AuthenticationFailed)

\* C3, as stated: decrypt returns a plaintext only for a blob encrypt produced
\* under the same key, bit for bit; a flipped bit or another key makes it fail
\* with the authentication failure.
C3_AuthenticityOfOpen == C3_OnlySealedBlobsOpen /\ C3_FlippedOrOtherKeyFails

\* C6, as stated: decrypt of a blob shorter than the 28-byte header fails with
\* MalformedEnvelope before any cryptographic operation is attempted.
C6_ShortBlobRejected ==
    (call.fn = "decrypt" /\ Len(call.msg) < NonceLen + TagLen)
        => (~call.ok /\ call.err = "MalformedEnvelope" /\ call.ops = <<>>)

\* The bytes a seal call encrypted, the ciphertext and the tag of its blob.
SealedBytes == IF prog = "hybrid-rsa" THEN last.plaintext ELSE Utf8Encode(last.plaintext)
SealedCiphertext == GcmCiphertext(last.key, last.iv, SealedBytes)
SealedTag == GcmAuthTag(last.key, last.iv, SealedCiphertext)
IsDraw(buf) == \E d \in 1..rng : buf = RandomBytes(Len(buf), d)

\* The latest call opened what the latest seal returned, with its key.
AnyOpenedSealed == OpenedSealed \/ HybridOpenedSealed

C9_NonceFreshPerCall ==
    /\ \A u \in used :
           /\ Len(u.iv) = NonceLen
           /\ \E d \in (u.from + 1)..u.to : u.iv = RandomBytes(NonceLen, d)
    /\ \A a, b \in used : (a.from # b.from /\ a.key = b.key) => a.iv # b.iv

C9_Witness ==
    /\ prog = "aes-256-gcm"
    /\ \E a, b \in used : a.from # b.from /\ a.key = b.key

\* The blob of the latest seal opens under the key the model recorded for it.
SealedUnderRecordedKey ==
    IF prog = "hybrid-rsa"
        THEN WebSymmetricDecrypt([raw |-> last.key, usages |-> {"decrypt"},
                                  extractable |-> FALSE], last.blob).ok
    ELSE SymmetricDecrypt(last.key, last.blob).ok

\* C10: the symmetric key of a hybridEncrypt call (the key its wrappedKey unwraps
\* to, under which its envelope is sealed) is a 256-bit draw the call itself made,
\* and no two calls use the same key.
C10_FreshDataKeyPerCall ==
    /\ \A u \in used :
           /\ Len(u.key) = KeyLen
           /\ \E d \in (u.from + 1)..u.to : u.key = RandomBytes(KeyLen, d)
    /\ \A a, b \in used : a.from # b.from => a.key # b.key
    /\ last # NoSeal => SealedUnderRecordedKey

C10_Witness ==
    /\ prog = "hybrid-rsa"
    /\ Cardinality(used) >= 2
    /\ SealedUnderRecordedKey

HashMismatch ==
    /\ ~call.derived.val.undefined
    /\ call.derived.val.hash # call.profile.hash
UnwrapSteps == {"createDecipheriv", "update", "final"}

\* C5: getUserKey compares the derived hash with profile.hash before any step of
\* the AES-KW decipher; on a mismatch it fails with the invalid-passphrase error
\* and the decipher is never created or run.
C5_VerifyBeforeUnwrap ==
    call.fn = "getUserKey" =>
        /\ \A i \in 1..Len(call.ops) :
               call.ops[i] \in UnwrapSteps => \E j \in 1..(i - 1) : call.ops[j] = "compare"
        /\ HashMismatch =>
               /\ ~call.ok
               /\ call.err = InvalidPassphrase
               /\ \A i \in 1..Len(call.ops) : call.ops[i] \notin UnwrapSteps

C5_Witness ==
    /\ call.fn = "getUserKey"
    /\ HashMismatch
    /\ call.err = InvalidPassphrase
    /\ call.ops = <<"argon2.hash", "compare">>

\* C7, as stated: when Argon2 fails, deriveKeyHash / deriveKey signal the failure
\* to the caller (they do not complete normally), so the caller does nothing
\* after the derivation.
C7_DerivationFailureSignalled ==
    (call.fn \in {"createUser", "getUserKey", "deriveKey"} /\ call.fails)
        => (~call.derived.ok /\ call.ops[Len(call.ops)] = "argon2.hash")

\* What the unwrap step of the latest hybridDecrypt call did.
UnwrapOfCall ==
    IF prog = "hybrid-rsa" THEN RsaKeyUnwrap(call.priv, call.wrappedKey)
    ELSE RsaDecrypt(call.priv, call.wrappedKey)
UnwrapStep == {"privateDecrypt", "unwrapKey"}
OpenSteps == {"createDecipheriv", "setAuthTag", "update", "final", "decrypt"}

\* C11: hybridDecrypt unwraps the key first and opens the envelope only after the
\* unwrap succeeded; when the unwrap fails it attempts no symmetric decryption
\* step.
C11_UnwrapBeforeOpen ==
    call.fn = "hybridDecrypt" =>
        /\ Len(call.ops) >= 1
        /\ call.ops[1] \in UnwrapStep
        /\ \A i \in 2..Len(call.ops) : call.ops[i] \in OpenSteps
        /\ ~UnwrapOfCall.ok =>
               /\ ~call.ok
               /\ call.err = UnwrapOfCall.err
               /\ Len(call.ops) = 1

C11_Witness ==
    /\ prog = "rsa-hybrid-encrypt"
    /\ call.fn = "hybridDecrypt"
    /\ call.priv # last.pair
    /\ ~call.ok
    /\ call.ops = <<"privateDecrypt">>

\* C12, as stated: every failure of hybridDecrypt, at the unwrap stage or at the
\* open stage, reaches the caller as the one error HybridDecryptionFailed.
C12_OpaqueHybridFailure ==
    (prog = "rsa-hybrid-encrypt" /\ call.fn = "hybridDecrypt" /\ ~call.ok)
        => call.err = "HybridDecryptionFailed"

\* The streaming encrypt got past the creation of its cipher.
StreamSealing == stream.fn = "encrypt" /\ "createCipheriv" \in {stream.ops[i] : i \in 1..Len(stream.ops)} /\ stream.err = ""
WholeCiphertext == GcmCiphertext(stream.key, stream.iv, Concat(stream.input))

\* C13: the streaming encrypt writes the nonce to the destination exactly once
\* and before any ciphertext byte, and the authentication tag is produced only
\* after the whole source has been consumed and encrypted.
C13_StreamSealOrdering ==
    StreamSealing =>
        /\ Len(stream.dest) >= 1
        /\ stream.dest[1] = stream.iv
        /\ stream.iv = RandomBytes(NonceLen, rng)
        /\ Concat(Tail(stream.dest)) = GcmCiphertext(stream.key, stream.iv, stream.fed)
           \/ stream.destState = "errored"
        /\ \A i \in 2..Len(stream.dest) : \A j \in 1..Len(stream.dest[i]) :
               stream.dest[i][j][1] = "gcm"
        /\ (stream.promise = "resolved" \/ stream.val # <<>>) =>
               /\ stream.srcState = "ended"
               /\ stream.src = <<>>
               /\ stream.fed = Concat(stream.input)
               /\ Concat(stream.dest) = stream.iv \o WholeCiphertext
               /\ stream.val = GcmAuthTag(stream.key, stream.iv, WholeCiphertext)

C13_Witness ==
    /\ StreamSealing
    /\ stream.promise = "resolved"
    /\ Len(stream.input) = 2
    /\ Len(stream.dest) = 3

\* C14, as stated: when the source stream emits an error, the promise of the
\* streaming encrypt or decrypt is rejected; the call does not stay pending for
\* ever (no state in which the source has failed, nothing more can happen and the
\* promise is not rejected).
C14_SourceErrorRejects ==
    (stream.fn # "none" /\ stream.srcState = "errored" /\ ~ENABLED NextStream)
        => stream.promise = "rejected"

\* C15: when the source fails or the destination stops before the streaming
\* encrypt has consumed the whole source, the call never resolves with a tag.
C15_NoTagOnEarlyAbort ==
    (stream.fn = "encrypt" /\ (stream.srcState = "errored" \/ stream.destState = "errored"))
        => /\ stream.promise # "resolved"
           /\ stream.val = <<>>
           /\ \A i \in 1..Len(stream.ops) : stream.ops[i] # "getAuthTag"

C15_Witness ==
    /\ stream.fn = "encrypt"
    /\ stream.srcState = "errored"
    /\ stream.fed # <<>>
    /\ stream.src # <<>>
    /\ stream.promise = "pending"

\* C16, as stated: when the tag verification fails, the streaming decrypt has
\* written no plaintext byte to the destination.
C16_NoPlaintextOnAuthFailure ==
    (stream.fn = "decrypt" /\ stream.promise = "rejected" /\ stream.err = AuthenticationFailed)
        => Concat(stream.dest) = <<>>

\* The other half of C16: decrypt of aes-256-gcm.js returns nothing when it fails.
C16_GcmFailsClosed == (call.fn = "decrypt" /\ ~call.ok) => call.val = <<>>

\* ---- key-wrap.js: deriveKey --------------------------------------------------------

SameArguments(a, b) ==
    a.passphrase = b.passphrase /\ a.salt = b.salt /\ a.length = b.length

\* C17: deriveKey(passphrase, salt, length) is a function of its three arguments:
\* two calls with identical arguments return identical results, and two calls that
\* differ in the salt or in the length return different results.
C17_DeriveKeyDeterministic ==
    \A a \in used : \A b \in used :
        /\ SameArguments(a, b) => a.returned = b.returned
        /\ (a.passphrase = b.passphrase /\ ~SameArguments(a, b))
                => a.returned # b.returned

\* What remains of C17 for the calls in which Argon2 produced its output: the bytes
\* are those of Argon2 for the three arguments, equal for equal arguments, different
\* for another salt or another length.
C17_CompletedDerivations ==
    \A a \in used : \A b \in used :
        (~a.returned.undefined /\ ~b.returned.undefined) =>
            /\ a.returned.bytes = Argon2Hash(a.passphrase, a.salt, a.length)
            /\ Len(a.returned.bytes) = a.length
            /\ SameArguments(a, b) <=> a.returned.bytes = b.returned.bytes

\* ---- key-wrap.js: deriveKeyHash ----------------------------------------------------

\* The bytes a string of hexadecimal characters stands for.
HexBytes(hex) == [i \in 1..(Len(hex) \div 2) |-> hex[(2 * i) - 1][2]]

\* A call of createUser or getUserKey whose deriveKeyHash produced its result.
Derived ==
    /\ call.fn \in {"createUser", "getUserKey"}
    /\ ~call.derived.val.undefined

\* C18: deriveKeyHash asks Argon2 for 64 bytes; the wrapping key is bytes 0..31 and the
\* hash is the hexadecimal form of bytes 32..63: the two parts do not overlap and
\* together they are the whole output.
C18_PositionalSplit ==
    Derived =>
        LET result == Argon2Hash(call.passphrase, call.profile.salt, 64)
            derived == call.derived.val
        IN  /\ derived.wrappingKey = SubSeq(result, 1, 32)
            /\ derived.hash = ToHex(SubSeq(result, 33, 64))
            /\ Len(derived.wrappingKey) = 32
            /\ Len(derived.hash) = 64
            /\ derived.wrappingKey \o HexBytes(derived.hash) = result
            /\ \A i \in 1..32 : \A j \in 1..64 : derived.hash[j][2] # derived.wrappingKey[i]

C18_Witness ==
    /\ Derived
    /\ call.fn = "getUserKey"
    /\ call.ok

\* ---- key-wrap.js: the stored profile -----------------------------------------------

\* C19: getUserKey only reads the profile: salt, wrappedKey and hash of the stored
\* profile are the same after a login attempt, successful or not, as before it; a
\* profile gets its fields only when createUser builds it.
C19_ProfileReadOnlyAtLogin ==
    [][/\ call'.fn = "getUserKey" => users' = users
       /\ users' # users =>
            /\ call'.fn = "createUser"
            /\ call'.ok
            /\ users' = [name \in {"alex"} |-> call'.profile]]_vars

\* A login has failed and the stored profile is still the one createUser returned:
\* it opens with the passphrase of createUser.
C19_Witness ==
    /\ call.fn = "getUserKey"
    /\ ~call.ok
    /\ call.profile = users["alex"]
    /\ GetUserKey(users["alex"], last.passphrase, FALSE).ok
    /\ GetUserKey(users["alex"], last.passphrase, FALSE).val = last.userKey

\* A login attempt with a passphrase other than the one of createUser, on the profile
\* as stored.
WrongPassphraseAttempt ==
    /\ call.fn = "getUserKey"
    /\ ~call.fails
    /\ call.profile = users["alex"]
    /\ Utf8Encode(call.passphrase) # Utf8Encode(last.passphrase)

\* A login attempt with the passphrase of createUser on a profile whose wrappedKey or
\* hash is not the stored one.
CorruptedProfileAttempt ==
    /\ call.fn = "getUserKey"
    /\ ~call.fails
    /\ call.profile # users["alex"]
    /\ call.passphrase = last.passphrase

\* C20: a wrong passphrase and corrupted stored data (wrappedKey or hash) fail in the
\* same way: every such attempt throws, and throws the one error of the wrong
\* passphrase.
C20_IndistinguishableFailures ==
    (WrongPassphraseAttempt \/ CorruptedProfileAttempt) =>
        /\ ~call.ok
        /\ call.err = InvalidPassphrase

\* ---- key-wrap.js: round trip -------------------------------------------------------

\* getUserKey(createUser(p), p): the profile is the one createUser returned and the
\* passphrase the one given to createUser; Argon2 produced its output in both calls.
LoginAfterCreate ==
    /\ call.fn = "getUserKey"
    /\ call.profile = users["alex"]
    /\ call.passphrase = last.passphrase
    /\ ~call.fails

\* C21: for every passphrase p, getUserKey(createUser(p), p) returns exactly the
\* 32-byte user key that createUser drew and wrapped under the key derived from p and
\* the salt of the profile.
C21_KeyWrapRoundTrip ==
    LoginAfterCreate =>
        /\ call.ok
        /\ call.val = last.userKey
        /\ Len(call.val) = 32
        /\ call.val \in keys
        /\ users["alex"].wrappedKey =
               AesKwWrap(Slice(Argon2Hash(call.passphrase, users["alex"].salt, 64), 0, 32),
                         AesKwIv, last.userKey)

C21_Witness ==
    /\ LoginAfterCreate
    /\ call.ok
    /\ Len(call.val) = 32
    /\ \E p \in Passphrases : p = call.passphrase /\ ~WellFormed(p)

\* ---- aes-stream.js: round trip -----------------------------------------------------

\* decrypt was given the tag encrypt returned and the bytes encrypt wrote, in some
\* chunking, and neither of its streams has failed.
StreamOpening ==
    /\ stream.fn = "decrypt"
    /\ stream.tag = stream.sealed.tag
    /\ Concat(stream.input) = stream.sealed.file
    /\ stream.srcState # "errored"
    /\ stream.destState # "errored"

\* C22: however the encrypted stream is delivered in chunks, decrypt given the tag and
\* the output of encrypt does not fail, and once the source has ended it has resolved
\* with exactly the original bytes in the destination; the nonce is the first 12 bytes
\* of the encrypted stream and the decipher is fed all and only the bytes after them.
C22_StreamRoundTrip ==
    StreamOpening =>
        /\ stream.promise # "rejected"
        /\ stream.srcState = "ended" =>
              /\ stream.promise = "resolved"
              /\ Concat(stream.dest) = stream.sealed.plaintext
              /\ stream.iv = Slice(stream.sealed.file, 0, 12)
              /\ stream.fed = SliceFrom(stream.sealed.file, 12)

\* What remains of C22 when the first chunk of the encrypted stream holds at least
\* the 12 bytes of the nonce.
C22_RoundTripWithWholeNonce ==
    (StreamOpening /\ Len(Head(stream.input)) >= 12) =>
        /\ stream.promise # "rejected"
        /\ stream.srcState = "ended" =>
              /\ stream.promise = "resolved"
              /\ Concat(stream.dest) = stream.sealed.plaintext
              /\ stream.iv = Slice(stream.sealed.file, 0, 12)
              /\ stream.fed = SliceFrom(stream.sealed.file, 12)

(***************************************************************************)
(* ch3-hashing: scryptHash (the scrypt-generate sample) and                *)
(* scrypt-verify.js                                                        *)
(***************************************************************************)
\* buf.toString('base64'): four characters for every three bytes.  Character k of
\* a group carries bits of the byte before it and of the byte after it; '=' fills
\* the last group.
Base64Encode(buf) ==
    [i \in 1..(4 * ((Len(buf) + 2) \div 3)) |->
        LET g == (i - 1) \div 4
            k == (i - 1) % 4
            at == (3 * g) + k
        IN  IF k > 0 /\ at > Len(buf) THEN <<"pad">>
            ELSE <<"sextet", k,
                   IF k = 0 THEN <<>> ELSE buf[at],
                   IF k = 3 \/ at + 1 > Len(buf) THEN <<>> ELSE buf[at + 1]>>]

\* Buffer.from(str, 'base64'): three bytes for every four characters, up to the
\* padding; a byte whose two characters do not belong together is some other byte.
Base64Decode(str) ==
    LET chars == Cardinality({i \in 1..Len(str) : str[i][1] = "sextet"})
    IN  [j \in 1..((chars * 3) \div 4) |->
            LET at == (4 * ((j - 1) \div 3)) + ((j - 1) % 3) + 1
            IN  IF str[at][4] = str[at + 1][3] THEN str[at][4] ELSE <<"junk">>]

\* crypto.scrypt(password, salt, keylen) with the default cost: a string password is
\* hashed as its UTF-8 bytes.
Scrypt(password, salt, keylen) ==
    [i \in 1..keylen |-> <<"scrypt", Utf8Encode(password), Name(salt), keylen, i>>]

\* scryptHash(passphrase); salt is what `await randomBytes(saltLength)` returned.
ScryptHash(passphrase, salt) ==
    LET hash == Scrypt(passphrase, salt, 32)
    IN  Returned(Base64Encode(salt \o hash), <<"randomBytes", "scrypt">>)

\* A variant of scryptVerify that compares with the whole decoded buffer.
ScryptVerifyWholeBuffer(stored, passphrase) ==
    LET buf == Base64Decode(stored)
        salt == Slice(buf, 0, SaltLen)
        verifyHash == Scrypt(passphrase, salt, 32)
    IN  Returned(verifyHash = buf, <<"scrypt">>)

\* scryptVerify(stored, passphrase)
ScryptVerify(stored, passphrase) ==
    LET buf == Base64Decode(stored)
        salt == Slice(buf, 0, SaltLen)
        hash == SliceFrom(buf, SaltLen)
        verifyHash == Scrypt(passphrase, salt, 32)
    IN  Returned(verifyHash = hash, <<"scrypt">>)

NoScryptCall == [fn |-> "none", passphrase |-> <<>>, stored |-> <<>>,
                 ok |-> FALSE, val |-> FALSE, ops |-> <<>>]

InitScrypt ==
    /\ prog = "scrypt"
    /\ rng = 0
    /\ keys = {}
    /\ used = {}
    /\ last = [passphrase |-> <<>>, stored |-> <<>>]
    /\ call = NoScryptCall
    /\ users = NoUsers
    /\ stream = NoStream
    /\ keyPairs = NoKeyPairs
    /\ clients = NoClients
    /\ served = <<>>

\* const stored = await scryptHash(passphrase)
ScryptHashCall ==
    /\ prog = "scrypt"
    /\ call.fn = "none"
    /\ \E passphrase \in Strings :
        LET r == ScryptHash(passphrase, RandomBytes(SaltLen, rng + 1))
        IN  /\ call' = [fn |-> "scryptHash", passphrase |-> passphrase, stored |-> <<>>,
                        ok |-> r.ok, val |-> FALSE, ops |-> r.ops]
            /\ last' = [passphrase |-> passphrase, stored |-> r.val]
    /\ rng' = rng + 1
    /\ UNCHANGED <<prog, keys, used, users, stream, exchange>>

\* await scryptVerify(stored, passphrase) with the value scryptHash returned
ScryptVerifyCall ==
    /\ prog = "scrypt"
    /\ call.fn = "scryptHash"
    /\ \E passphrase \in Strings :
        LET r == ScryptVerify(last.stored, passphrase)
        IN  call' = [fn |-> "scryptVerify", passphrase |-> passphrase,
                     stored |-> last.stored, ok |-> r.ok, val |-> r.val, ops |-> r.ops]
    /\ UNCHANGED <<prog, rng, keys, used, last, users, stream, exchange>>

NextScrypt == ScryptHashCall \/ ScryptVerifyCall

SpecScrypt == InitScrypt /\ [][NextScrypt]_vars

\* ---- scrypt: verification ----------------------------------------------------------

\* The stored value is base64 of the 16 bytes of the salt followed by the 32 bytes of
\* the hash of the passphrase under that salt.
StoredLayout ==
    LET buf == Base64Decode(last.stored)
    IN  /\ Len(last.stored) = 64
        /\ Len(buf) = 48
        /\ last.stored = Base64Encode(buf)
        /\ Slice(buf, 0, 16) = RandomBytes(16, 1)
        /\ SliceFrom(buf, 16) = Scrypt(last.passphrase, RandomBytes(16, 1), 32)

\* C23 as stated: for stored = scryptHash(p), scryptVerify(stored, q) returns true
\* exactly when q equals p.
C23_VerifyExactlySamePassphrase ==
    call.fn = "scryptVerify" =>
        /\ StoredLayout
        /\ call.val <=> (call.passphrase = last.passphrase)

\* C23 amended: for stored = scryptHash(p), scryptVerify(stored, q) returns true
\* exactly when q and p have the same UTF-8 bytes (two strings that differ only in
\* unpaired surrogates do); it derives the hash of q under the first 16 decoded bytes
\* and compares it with the remaining 32.
C23_VerifyExactlySameBytes ==
    call.fn = "scryptVerify" =>
        /\ StoredLayout
        /\ call.val <=> (Utf8Encode(call.passphrase) = Utf8Encode(last.passphrase))
        /\ call.val <=>
              (Scrypt(call.passphrase, Slice(Base64Decode(call.stored), 0, 16), 32)
                   = SliceFrom(Base64Decode(call.stored), 16))

C23_Witness ==
    /\ call.fn = "scryptVerify"
    /\ call.val
    /\ call.passphrase = last.passphrase
    /\ Len(call.passphrase) > 0

(***************************************************************************)
(* ch6-digital-signatures: signatures-rsa.js, signatures-prime256v1.js and *)
(* the Ed25519 sample.  A key pair is a number: the private and the public *)
(* key object of pair n were read from the two PEM files of pair n.        *)
(***************************************************************************)
\* Bytes of a signature: the modulus of a 2048-bit RSA key, the DER form of two
\* 256-bit integers, the 64 bytes of Ed25519.
SignatureLen(scheme) ==
    CASE scheme = "rsa-pss" -> 256
      [] scheme = "ecdsa-prime256v1" -> 72
      [] scheme = "ed25519" -> 64

\* crypto.sign(algorithm, data, key) for the bytes of data.  salt is the randomness
\* the scheme draws (RSA-PSS, ECDSA), 0 for Ed25519.
CryptoSign(scheme, privateKey, data, salt) ==
    [i \in 1..SignatureLen(scheme) |-> <<"sig", scheme, privateKey, data, salt, i, 0>>]

\* crypto.verify(algorithm, data, key, signature): true for the signatures the
\* private key of the pair made of these bytes, false for every other buffer.
CryptoVerify(scheme, publicKey, data, signature) ==
    /\ Len(signature) = SignatureLen(scheme)
    /\ signature[1][1] = "sig"
    /\ signature = CryptoSign(scheme, publicKey, data, signature[1][5])

\* A variant of rsaVerify that does not look at the message.
RsaVerifyAnyMessage(publicKey, message, signature) ==
    /\ Len(signature) = SignatureLen("rsa-pss")
    /\ signature[1][1] = "sig"
    /\ signature[1][3] = publicKey

\* The samples pass the message as a string: crypto.sign and crypto.verify take its
\* UTF-8 bytes.
RsaSign(privateKey, message, salt) ==
    CryptoSign("rsa-pss", privateKey, Utf8Encode(message), salt)
RsaVerify(publicKey, message, signature) ==
    CryptoVerify("rsa-pss", publicKey, Utf8Encode(message), signature)

Prime256v1Sign(privateKey, message, salt) ==
    CryptoSign("ecdsa-prime256v1", privateKey, Utf8Encode(message), salt)
Prime256v1Verify(publicKey, message, signature) ==
    CryptoVerify("ecdsa-prime256v1", publicKey, Utf8Encode(message), signature)

Ed25519Sign(privateKey, message) ==
    CryptoSign("ed25519", privateKey, Utf8Encode(message), 0)
Ed25519Verify(publicKey, message, signature) ==
    CryptoVerify("ed25519", publicKey, Utf8Encode(message), signature)

Schemes == {"rsa-pss", "ecdsa-prime256v1", "ed25519"}

NoSignCall == [fn |-> "none", scheme |-> "", pair |-> 0, message |-> <<>>,
               signature |-> <<>>, val |-> FALSE]

InitSign ==
    /\ prog = "signatures"
    /\ rng = 0
    /\ keys = {}
    /\ used = {}
    /\ last = NoSignCall
    /\ call = NoSignCall
    /\ users = NoUsers
    /\ stream = NoStream
    /\ keyPairs = NoKeyPairs
    /\ clients = NoClients
    /\ served = <<>>

\* const signature = rsaSign(privateKeyObject, message), and the same line of the
\* other two samples
SignCall ==
    /\ prog = "signatures"
    /\ call.fn = "none"
    /\ \E scheme \in Schemes, pair \in Pairs, message \in Strings :
        LET signature ==
                CASE scheme = "rsa-pss" -> RsaSign(pair, message, rng + 1)
                  [] scheme = "ecdsa-prime256v1" -> Prime256v1Sign(pair, message, rng + 1)
                  [] scheme = "ed25519" -> Ed25519Sign(pair, message)
        IN  /\ call' = [fn |-> "sign", scheme |-> scheme, pair |-> pair,
                        message |-> message, signature |-> signature, val |-> FALSE]
            /\ last' = call'
            /\ rng' = IF scheme = "ed25519" THEN rng ELSE rng + 1
    /\ UNCHANGED <<prog, keys, used, users, stream, exchange>>

\* const signatureVerified = rsaVerify(publicKeyObject, message, signature), and the
\* same line of the other two samples; the signature arrives whole or with one bit
\* flipped.
VerifyCall ==
    /\ prog = "signatures"
    /\ call.fn = "sign"
    /\ \E pair \in Pairs, message \in Strings,
          signature \in {last.signature, FlipBit(last.signature, 1, 0)} :
        LET scheme == last.scheme
            val == CASE scheme = "rsa-pss" -> RsaVerify(pair, message, signature)
                     [] scheme = "ecdsa-prime256v1" ->
                            Prime256v1Verify(pair, message, signature)
                     [] scheme = "ed25519" -> Ed25519Verify(pair, message, signature)
        IN  call' = [fn |-> "verify", scheme |-> scheme, pair |-> pair,
                     message |-> message, signature |-> signature, val |-> val]
    /\ UNCHANGED <<prog, rng, keys, used, last, users, stream, exchange>>

NextSign == SignCall \/ VerifyCall

SpecSign == InitSign /\ [][NextSign]_vars

\* ---- signatures: round trip --------------------------------------------------------

\* verify was given the signature sign returned and the public key of the pair that
\* signed.
VerifiedSigned ==
    /\ call.fn = "verify"
    /\ call.pair = last.pair
    /\ call.signature = last.signature

\* C24 as stated: for each scheme, verify(publicKey, m, sign(privateKey, m)) is true,
\* and verify is false when the message given to verify differs from the signed one.
C24_SignatureRoundTrip ==
    VerifiedSigned => (call.val <=> (call.message = last.message))

\* C24 amended: for each scheme, verify(publicKey, m, sign(privateKey, m)) is true, and
\* verify is false when the UTF-8 bytes of the message given to verify differ from
\* those of the signed message.
C24_SignatureRoundTripBytes ==
    VerifiedSigned =>
        /\ call.message = last.message => call.val
        /\ call.val <=> (Utf8Encode(call.message) = Utf8Encode(last.message))

C24_Witness ==
    /\ VerifiedSigned
    /\ call.scheme = "ecdsa-prime256v1"
    /\ call.message = last.message
    /\ call.val

(***************************************************************************)
(* ch3-hashing/sha2-stream.js (and its commented copy, which ends the hash *)
(* before it takes the digest), the one-shot sha256Digest, and             *)
(* ch6-digital-signatures/signatures-rsa-stream.js.                        *)
(* The variable stream holds the call in progress: the chunks the readable *)
(* stream has still to deliver (src) and its state, the bytes written to   *)
(* the hash, signer or verifier (fed), and what became of the promise.     *)
(* Hash, Sign and Verify are writable streams whose write is synchronous:  *)
(* a chunk the source delivers is in the digest state when the 'data'      *)
(* event returns.                                                          *)
(***************************************************************************)
ReadFailed == "read error"

\* crypto.createHash('sha256').update(message).digest()
Sha256(message) == [i \in 1..32 |-> <<"sha256", message, i>>]

\* sha256Digest(message, encoding), message a Buffer
Sha256Digest(message, encoding) ==
    CASE encoding = "hex" -> ToHex(Sha256(message))
      [] encoding = "base64" -> Base64Encode(Sha256(message))
      [] OTHER -> Sha256(message)

Encodings == {"buffer", "hex", "base64"}

NoSigned == [pair |-> 0, message |-> <<>>, signature |-> <<>>]

\* A variant of sha256DigestStream that takes the digest before it sets up the pipe.
Sha256DigestStreamEarly(read, encoding, file) ==
    [fn |-> "sha256DigestStream", file |-> file, encoding |-> encoding, pair |-> 0,
     signature |-> <<>>, input |-> read, src |-> read, fed |-> <<>>,
     srcState |-> "open", promise |-> "resolved",
     val |-> Sha256Digest(<<>>, encoding), verified |-> FALSE, err |-> "",
     ops |-> <<"createHash", "digest", "pipe">>, sealed |-> NoSigned]

\* sha256DigestStream(read, encoding) up to the end of the Promise executor: the hash
\* object is created, the listeners registered, the pipe set up.
Sha256DigestStream(read, encoding, file) ==
    [fn |-> "sha256DigestStream", file |-> file, encoding |-> encoding, pair |-> 0,
     signature |-> <<>>, input |-> read, src |-> read, fed |-> <<>>,
     srcState |-> "open", promise |-> "pending", val |-> <<>>, verified |-> FALSE,
     err |-> "", ops |-> <<"createHash", "pipe">>, sealed |-> NoSigned]

\* rsaSignStream(privateKey, messageStream) up to the end of the Promise executor
RsaSignStream(privateKey, messageStream) ==
    [fn |-> "rsaSignStream", file |-> "signatures-rsa-stream.js", encoding |-> "buffer",
     pair |-> privateKey, signature |-> <<>>, input |-> messageStream,
     src |-> messageStream, fed |-> <<>>, srcState |-> "open", promise |-> "pending",
     val |-> <<>>, verified |-> FALSE, err |-> "", ops |-> <<"createSign", "pipe">>,
     sealed |-> NoSigned]

\* rsaVerifyStream(publicKey, messageStream, signature) up to the end of the executor
RsaVerifyStream(publicKey, messageStream, signature, sealed) ==
    [fn |-> "rsaVerifyStream", file |-> "signatures-rsa-stream.js", encoding |-> "buffer",
     pair |-> publicKey, signature |-> signature, input |-> messageStream,
     src |-> messageStream, fed |-> <<>>, srcState |-> "open", promise |-> "pending",
     val |-> <<>>, verified |-> FALSE, err |-> "", ops |-> <<"createVerify", "pipe">>,
     sealed |-> sealed]

\* read.pipe(hash), a 'data' event: the chunk is written to the hash (signer, verifier).
PipeWrite(st) ==
    [st EXCEPT !.src = Tail(st.src), !.fed = st.fed \o Head(st.src),
               !.ops = Append(st.ops, "update")]

\* A variant of the 'error' listener that does nothing.
ReadErrorIgnored(st) == [st EXCEPT !.srcState = "errored"]

\* The 'error' listener of the readable stream: reject(err).
ReadError(st) ==
    [st EXCEPT !.srcState = "errored", !.promise = "rejected", !.err = ReadFailed]

\* The 'end' listener of the readable stream: the digest, the signature (salt is
\* the randomness of RSA-PSS) or the result of the verification resolves the promise.
ReadEnd(st, salt) ==
    LET ended == [st EXCEPT !.srcState = "ended", !.promise = "resolved"]
    IN  CASE st.fn = "sha256DigestStream" ->
                [ended EXCEPT !.val = Sha256Digest(st.fed, st.encoding),
                              !.ops = st.ops \o (IF st.file = "sha2-stream.js"
                                                     THEN <<"digest">>
                                                 ELSE <<"end", "digest">>)]
          [] st.fn = "rsaSignStream" ->
                [ended EXCEPT !.val = CryptoSign("rsa-pss", st.pair, st.fed, salt),
                              !.ops = st.ops \o <<"end", "sign">>]
          [] st.fn = "rsaVerifyStream" ->
                [ended EXCEPT !.verified =
                                  CryptoVerify("rsa-pss", st.pair, st.fed, st.signature),
                              !.ops = st.ops \o <<"end", "verify">>]

InitPipe ==
    /\ prog = "streams"
    /\ rng = 0
    /\ keys = {}
    /\ used = {}
    /\ last = NoSeal
    /\ call = NoCall
    /\ users = NoUsers
    /\ stream = NoStream
    /\ keyPairs = NoKeyPairs
    /\ clients = NoClients
    /\ served = <<>>

\* const digest = await sha256DigestStream(read, 'hex')
Sha256DigestStreamCall ==
    /\ prog = "streams"
    /\ stream.fn = "none"
    /\ \E read \in Sources, encoding \in Encodings, file \in {"sha2-stream.js", "part_000"} :
        stream' = Sha256DigestStream(read, encoding, file)
    /\ UNCHANGED <<prog, rng, keys, used, last, call, users, exchange>>

\* const signature = await rsaSignStream(privateKeyObject, read)
RsaSignStreamCall ==
    /\ prog = "streams"
    /\ stream.fn = "none"
    /\ \E privateKey \in Pairs, read \in Sources :
        stream' = RsaSignStream(privateKey, read)
    /\ UNCHANGED <<prog, rng, keys, used, last, call, users, exchange>>

\* const signatureValid = await rsaVerifyStream(publicKeyObject, read, signature),
\* after rsaSignStream has resolved; the stream is opened again and may deliver
\* the same bytes in other chunks, or other bytes.
RsaVerifyStreamCall ==
    /\ prog = "streams"
    /\ stream.fn = "rsaSignStream"
    /\ stream.promise = "resolved"
    /\ \E publicKey \in Pairs, read \in Sources :
        stream' = RsaVerifyStream(publicKey, read, stream.val,
                                  [pair |-> stream.pair, message |-> stream.fed,
                                   signature |-> stream.val])
    /\ UNCHANGED <<prog, rng, keys, used, last, call, users, exchange>>

Reading == stream.fn # "none" /\ stream.promise = "pending" /\ stream.srcState = "open"

ReadData ==
    /\ prog = "streams"
    /\ Reading
    /\ stream.src # <<>>
    /\ stream' = PipeWrite(stream)
    /\ UNCHANGED <<prog, rng, keys, used, last, call, users, exchange>>

ReadEndEvent ==
    /\ prog = "streams"
    /\ Reading
    /\ stream.src = <<>>
    /\ stream' = ReadEnd(stream, rng + 1)
    /\ rng' = IF stream.fn = "rsaSignStream" THEN rng + 1 ELSE rng
    /\ UNCHANGED <<prog, keys, used, last, call, users, exchange>>

ReadErrorEvent ==
    /\ prog = "streams"
    /\ Reading
    /\ stream' = ReadError(stream)
    /\ UNCHANGED <<prog, rng, keys, used, last, call, users, exchange>>

NextPipe ==
    \/ Sha256DigestStreamCall
    \/ RsaSignStreamCall
    \/ RsaVerifyStreamCall
    \/ ReadData
    \/ ReadEndEvent
    \/ ReadErrorEvent

SpecPipe == InitPipe /\ [][NextPipe]_vars

\* ---- streams into a hash, a signer, a verifier --------------------------------------

\* The number of entries of a sequence equal to x.
Count(seq, x) == Cardinality({i \in 1..Len(seq) : seq[i] = x})

DigestResolved ==
    /\ stream.fn = "sha256DigestStream"
    /\ stream.promise = "resolved"

\* C25: for a readable stream that ends without error, sha256DigestStream resolves
\* with the digest sha256Digest returns for the concatenation of the chunks, whatever
\* the chunking; the digest is taken only after every chunk has been written to the
\* hash object.
C25_StreamedDigestIsOneShot ==
    /\ DigestResolved =>
          /\ stream.val = Sha256Digest(Concat(stream.input), stream.encoding)
          /\ stream.fed = Concat(stream.input)
          /\ stream.srcState = "ended"
          /\ stream.ops[Len(stream.ops)] = "digest"
          /\ Count(stream.ops, "update") = Len(stream.input)
    /\ (stream.fn = "sha256DigestStream" /\ stream.srcState = "ended") => DigestResolved

\* Two chunks were hashed; the one-shot digest of the same bytes is that of every
\* other chunking of them.
C25_Witness ==
    /\ DigestResolved
    /\ Len(stream.input) = 2
    /\ stream.encoding = "hex"
    /\ stream.val = Sha256Digest(stream.input[1] \o stream.input[2], "hex")

Pipe_SignatureRoundTrip ==
    (stream.fn = "rsaVerifyStream" /\ stream.promise = "resolved") =>
        (stream.verified <=>
            (stream.pair = stream.sealed.pair /\ stream.fed = stream.sealed.message))

\* ---- aes-stream.js: the destination at the time encrypt resolves --------------------

\* C29: when the promise of the streaming encrypt has resolved with the tag, the
\* destination has finished: the nonce and every ciphertext byte have reached the
\* file and 'finish' has been emitted.
C29_DestinationFinishedAtResolve ==
    (stream.fn = "encrypt" /\ stream.promise = "resolved") =>
        /\ stream.finished
        /\ stream.flushed = Len(stream.dest)

\* The consequence C29 draws: the decrypt of the example, which opens the file after
\* encrypt has resolved, reads the complete encrypted output.
C29_ReaderSeesCompleteOutput ==
    stream.fn = "decrypt" => stream.sealed.read = stream.sealed.file

(***************************************************************************)
(* The key agreement client and server (x25519).                           *)
(* A key pair is the number of the draw that generated it; its public key  *)
(* exported as PEM is a string that names the curve and the pair.  The     *)
(* server handles one request at a time: the POST handler is synchronous,  *)
(* and the GET handler touches keyPairs only after its one await.          *)
(***************************************************************************)
\* newKeyPair.publicKey.export({type: 'spki', format: 'pem'})
ExportPem(keyPair) == <<"pem", "x25519", keyPair>>

\* digest('base64url'): base64 without the padding
IsSextet(c) == c[1] = "sextet"
Base64UrlEncode(buf) == SelectSeq(Base64Encode(buf), IsSextet)

\* crypto.diffieHellman({publicKey, privateKey}): the same 32 bytes for the public
\* key of one pair with the private key of another, whichever way round.
DiffieHellman(publicKey, privateKey) ==
    [i \in 1..32 |->
        <<"x25519", Min(publicKey, privateKey),
          IF publicKey < privateKey THEN privateKey ELSE publicKey, i>>]

\* The errors of the POST handler, and of the two platform calls inside it.
MissingParameter(name) == <<"Missing parameter", name>>
KeyPairNotFound(keyId) == <<"Key pair with ID not found", keyId>>
CreatePublicKeyError == <<"createPublicKey">>
DiffieHellmanError == <<"diffieHellman">>

\* keyPairs is a plain object: looking up a name such as this one finds a property
\* of Object.prototype, which is truthy and has no privateKey.
Inherited == {<<"constructor">>}

\* Handler for GET /public-key; newKeyPair is what `await generateKeyPair('x25519')`
\* returned.
PublicKeyHandler(pairs, newKeyPair) ==
    LET publicKey == ExportPem(newKeyPair)
        keyId == Base64UrlEncode(Sha256(publicKey))
    IN  [keyPairs |-> [k \in DOMAIN pairs \cup {keyId} |->
                          IF k = keyId THEN newKeyPair ELSE pairs[k]],
         status |-> 200, err |-> <<>>, sharedSecret |-> <<>>,
         res |-> [keyId |-> keyId, publicKey |-> publicKey]]

Failed(pairs, err) ==
    [keyPairs |-> pairs, status |-> 500, err |-> err, sharedSecret |-> <<>>,
     res |-> [keyId |-> <<>>, publicKey |-> <<>>]]

Without(pairs, keyId) == [k \in DOMAIN pairs \ {keyId} |-> pairs[k]]

\* Variants of the POST handler: one that keeps the key pair, one that computes the
\* secret with the key pair generated last, one that removes the key pair before it
\* reads the public key of the client.
KeyAgreementHandlerKeepsKey(pairs, body) ==
    IF body.publicKey = <<>> THEN Failed(pairs, MissingParameter("publicKey"))
    ELSE IF body.serverKeyId = <<>> THEN Failed(pairs, MissingParameter("serverKeyId"))
    ELSE IF body.serverKeyId \notin DOMAIN pairs \cup Inherited
        THEN Failed(pairs, KeyPairNotFound(body.serverKeyId))
    ELSE IF body.publicKey[1] # "pem" THEN Failed(pairs, CreatePublicKeyError)
    ELSE IF body.serverKeyId \in Inherited \/ body.publicKey[2] # "x25519" THEN Failed(pairs, DiffieHellmanError)
    ELSE [keyPairs |-> pairs, status |-> 200, err |-> <<>>,
          sharedSecret |-> DiffieHellman(body.publicKey[3], pairs[body.serverKeyId]),
          res |-> [keyId |-> <<>>, publicKey |-> <<>>]]

KeyAgreementHandlerLatestKey(pairs, body) ==
    IF body.publicKey = <<>> THEN Failed(pairs, MissingParameter("publicKey"))
    ELSE IF body.serverKeyId = <<>> THEN Failed(pairs, MissingParameter("serverKeyId"))
    ELSE IF body.serverKeyId \notin DOMAIN pairs \cup Inherited
        THEN Failed(pairs, KeyPairNotFound(body.serverKeyId))
    ELSE IF body.publicKey[1] # "pem" THEN Failed(pairs, CreatePublicKeyError)
    ELSE IF body.serverKeyId \in Inherited \/ body.publicKey[2] # "x25519" THEN Failed(pairs, DiffieHellmanError)
    ELSE LET latest == CHOOSE n \in {pairs[k] : k \in DOMAIN pairs} :
                           \A k \in DOMAIN pairs : pairs[k] <= n
         IN  [keyPairs |-> Without(pairs, body.serverKeyId), status |-> 200,
              err |-> <<>>, sharedSecret |-> DiffieHellman(body.publicKey[3], latest),
              res |-> [keyId |-> <<>>, publicKey |-> <<>>]]

KeyAgreementHandlerDeletesFirst(pairs, body) ==
    IF body.publicKey = <<>> THEN Failed(pairs, MissingParameter("publicKey"))
    ELSE IF body.serverKeyId = <<>> THEN Failed(pairs, MissingParameter("serverKeyId"))
    ELSE IF body.serverKeyId \notin DOMAIN pairs \cup Inherited
        THEN Failed(pairs, KeyPairNotFound(body.serverKeyId))
    ELSE IF body.publicKey[1] # "pem"
        THEN Failed(Without(pairs, body.serverKeyId), CreatePublicKeyError)
    ELSE IF body.serverKeyId \in Inherited \/ body.publicKey[2] # "x25519"
        THEN Failed(Without(pairs, body.serverKeyId), DiffieHellmanError)
    ELSE [keyPairs |-> Without(pairs, body.serverKeyId), status |-> 200, err |-> <<>>,
          sharedSecret |-> DiffieHellman(body.publicKey[3], pairs[body.serverKeyId]),
          res |-> [keyId |-> <<>>, publicKey |-> <<>>]]

\* Handler for POST /key-agreement; body is req.body after express.json().  A missing
\* parameter and an empty string are both the empty sequence.  An exception leaves
\* the handler before `delete keyPairs[keyId]` and the server answers 500.  The
\* public key is parsed before the private key is read, so a key that does not parse
\* is reported first.
KeyAgreementHandler(pairs, body) ==
    IF body.publicKey = <<>> THEN Failed(pairs, MissingParameter("publicKey"))
    ELSE IF body.serverKeyId = <<>> THEN Failed(pairs, MissingParameter("serverKeyId"))
    ELSE IF body.serverKeyId \notin DOMAIN pairs \cup Inherited
        THEN Failed(pairs, KeyPairNotFound(body.serverKeyId))
    ELSE IF body.publicKey[1] # "pem" THEN Failed(pairs, CreatePublicKeyError)
    ELSE IF body.serverKeyId \in Inherited \/ body.publicKey[2] # "x25519" THEN Failed(pairs, DiffieHellmanError)
    ELSE [keyPairs |-> Without(pairs, body.serverKeyId), status |-> 200, err |-> <<>>,
          sharedSecret |-> DiffieHellman(body.publicKey[3], pairs[body.serverKeyId]),
          res |-> [keyId |-> <<>>, publicKey |-> <<>>]]

NoServerKey == [keyId |-> <<>>, publicKey |-> <<>>]

\* The key pair `await generateKeyPair('x25519')` gives client c.  The server's key
\* pairs are numbered from 1 in the order they are generated, the clients' are
\* numbered below 0, and 0 is the key pair of a party the model does not follow.
ClientKeyPair(c) == 0 - c

\* A client before it has run.
NewClient ==
    [pc |-> "start", serverKey |-> NoServerKey, keyPair |-> 0,
     sharedSecret |-> <<>>, session |-> 0]

InitAgreement ==
    /\ prog = "key-agreement"
    /\ rng = 0
    /\ keys = {}
    /\ used = {}
    /\ last = [route |-> "none"]
    /\ call = NoCall
    /\ users = NoUsers
    /\ stream = NoStream
    /\ keyPairs = NoKeyPairs
    /\ clients = [c \in 1..MaxClients |-> NewClient]
    /\ served = <<>>

\* What the client does with the answer to its GET, up to sending its POST: it
\* generates its key pair and computes the shared secret with the public key of the
\* server.  None of it touches the state of the server.
ClientKeyAgreement(c, serverKey) ==
    [pc |-> "post", serverKey |-> serverKey, keyPair |-> ClientKeyPair(c),
     sharedSecret |-> DiffieHellman(serverKey.publicKey[3], ClientKeyPair(c)),
     session |-> 0]

\* axios.get(serverUrl + '/public-key') and the handler that answers it: the server
\* generates key pair rng + 1 and stores it; the client goes on with the answer.
GetPublicKey(c) ==
    /\ prog = "key-agreement"
    /\ clients[c].pc = "start"
    /\ LET out == PublicKeyHandler(keyPairs, rng + 1)
       IN  /\ keyPairs' = out.keyPairs
           /\ clients' = [clients EXCEPT ![c] = ClientKeyAgreement(c, out.res)]
           /\ last' = [route |-> "GET /public-key", body |-> NoServerKey,
                       status |-> out.status, err |-> out.err]
    /\ rng' = rng + 1
    /\ UNCHANGED <<prog, keys, used, call, users, stream, served>>

\* The body the client script posts.
ClientBody(c) ==
    [serverKeyId |-> clients[c].serverKey.keyId,
     publicKey |-> ExportPem(clients[c].keyPair)]

\* What the server prints after a key agreement, with the request that led to it.
Served(body, out) ==
    IF out.status = 200
    THEN Append(served, [keyId |-> body.serverKeyId, publicKey |-> body.publicKey,
                         sharedSecret |-> out.sharedSecret])
    ELSE served

\* The server handles the POST of client c; on 200 the client prints its secret, on
\* 500 axios throws and the script ends.
PostKeyAgreement(c) ==
    /\ prog = "key-agreement"
    /\ clients[c].pc = "post"
    /\ Len(served) <= MaxClients
    /\ LET body == ClientBody(c)
           out == KeyAgreementHandler(keyPairs, body)
       IN  /\ keyPairs' = out.keyPairs
           /\ served' = Served(body, out)
           /\ clients' = [clients EXCEPT
                  ![c].pc = IF out.status = 200 THEN "done" ELSE "failed",
                  ![c].session = IF out.status = 200 THEN Len(served) + 1 ELSE 0]
           /\ last' = [route |-> "POST /key-agreement", body |-> body,
                       status |-> out.status, err |-> out.err]
    /\ UNCHANGED <<prog, rng, keys, used, call, users, stream>>

\* Every key ID the server has sent so far.
Issued == DOMAIN keyPairs \cup {served[i].keyId : i \in 1..Len(served)}

\* A key ID of the right form that the server never sent.
NeverIssued == Base64UrlEncode(Sha256(ExportPem(0)))

\* The bodies of requests that come from elsewhere than the client script.  The
\* public key is missing, text that does not parse, a key of another curve, or the
\* x25519 key of a party the model does not follow; the key ID is missing, one the
\* server never sent, the name of an inherited property, or one the server sent.  A
\* client's own request may also arrive a second time.
OtherBodies ==
    {[serverKeyId |-> k, publicKey |-> <<>>] : k \in {<<>>} \cup Issued}
    \cup {[serverKeyId |-> k, publicKey |-> ExportPem(0)] :
             k \in {<<>>, NeverIssued} \cup Inherited \cup Issued}
    \cup {[serverKeyId |-> k, publicKey |-> <<"text">>] : k \in Inherited \cup Issued}
    \cup {[serverKeyId |-> k, publicKey |-> <<"pem", "prime256v1", 0>>] : k \in Issued}
    \cup {ClientBody(c) : c \in {d \in 1..MaxClients : clients[d].pc \in {"done", "failed"}}}

OtherPost ==
    /\ prog = "key-agreement"
    /\ Len(served) <= MaxClients
    /\ \E body \in OtherBodies :
        LET out == KeyAgreementHandler(keyPairs, body)
        IN  /\ keyPairs' = out.keyPairs
            /\ served' = Served(body, out)
            /\ last' = [route |-> "POST /key-agreement", body |-> body,
                        status |-> out.status, err |-> out.err]
    /\ UNCHANGED <<prog, rng, keys, used, call, users, stream, clients>>

NextAgreement ==
    \/ \E c \in 1..MaxClients : GetPublicKey(c)
    \/ \E c \in 1..MaxClients : PostKeyAgreement(c)
    \/ OtherPost

SpecAgreement == InitAgreement /\ [][NextAgreement]_vars

\* ---- key agreement: the ephemeral keys of the server -------------------------------

\* The key agreements the server completed before the request it handled last.
Earlier ==
    SubSeq(served, 1, Len(served) - (IF last.status = 200 THEN 1 ELSE 0))

\* The request handled last is a POST naming a key ID the server has already used.
NamesUsedKey ==
    /\ last.route = "POST /key-agreement"
    /\ \E i \in 1..Len(Earlier) : Earlier[i].keyId = last.body.serverKeyId

\* Every key pair takes part in at most one successful key agreement, and is gone
\* from keyPairs afterwards.
SingleUse ==
    /\ \A i, j \in 1..Len(served) : served[i].keyId = served[j].keyId => i = j
    /\ \A i \in 1..Len(served) : served[i].keyId \notin DOMAIN keyPairs

\* C27 as stated: a key pair is used for at most one successful key agreement and
\* every later POST /key-agreement naming its key ID fails with the error
\* 'Key pair with ID ... not found'.
C27_LaterRequestNotFound ==
    prog = "key-agreement" =>
        /\ SingleUse
        /\ NamesUsedKey =>
               /\ last.status = 500
               /\ last.err = KeyPairNotFound(last.body.serverKeyId)

\* C27: a key pair is used for at most one successful key agreement and is removed
\* from keyPairs by it; every later POST /key-agreement naming its key ID fails, with
\* 'Key pair with ID ... not found' when the request carries a publicKey and with
\* 'Missing parameter publicKey' when it does not.
C27_SingleUseKey ==
    prog = "key-agreement" =>
        /\ SingleUse
        /\ NamesUsedKey =>
               /\ last.status = 500
               /\ last.err = IF last.body.publicKey = <<>>
                             THEN MissingParameter("publicKey")
                             ELSE KeyPairNotFound(last.body.serverKeyId)

\* A client's own request, sent a second time after it succeeded, is answered with
\* the error that the key pair is not found.
C27_Witness ==
    /\ prog = "key-agreement"
    /\ NamesUsedKey
    /\ last.err = KeyPairNotFound(last.body.serverKeyId)
    /\ \E c \in 1..MaxClients : clients[c].pc = "done" /\ last.body = ClientBody(c)

\* C28: a client whose GET /public-key and POST /key-agreement both succeeded holds
\* the shared secret the server computed for that POST, whatever the order in which
\* the server handled the requests of the clients.
C28_BothSidesAgree ==
    prog = "key-agreement" =>
        \A c \in 1..MaxClients :
            clients[c].pc = "done" =>
                /\ clients[c].session \in 1..Len(served)
                /\ served[clients[c].session].keyId = clients[c].serverKey.keyId
                /\ served[clients[c].session].sharedSecret = clients[c].sharedSecret
                /\ Len(clients[c].sharedSecret) = 32

\* Two clients completed the exchange interleaved: the one that was given its server
\* key first was served last.
C28_Witness ==
    /\ prog = "key-agreement"
    /\ \E c, d \in 1..MaxClients :
        /\ clients[c].pc = "done"
        /\ clients[d].pc = "done"
        /\ clients[c].serverKey.publicKey[3] < clients[d].serverKey.publicKey[3]
        /\ clients[d].session < clients[c].session
        /\ clients[c].sharedSecret # clients[d].sharedSecret

\* GET /public-key added one entry to keyPairs and changed no other.
AddedOne ==
    /\ last'.route = "GET /public-key"
    /\ Cardinality(DOMAIN keyPairs' \ DOMAIN keyPairs) = 1
    /\ \A k \in DOMAIN keyPairs : k \in DOMAIN keyPairs' /\ keyPairs'[k] = keyPairs[k]

\* A successful POST /key-agreement removed the entry it names and changed no other.
RemovedNamed ==
    /\ last'.route = "POST /key-agreement"
    /\ last'.status = 200
    /\ last'.body.serverKeyId \in DOMAIN keyPairs
    /\ DOMAIN keyPairs' = DOMAIN keyPairs \ {last'.body.serverKeyId}
    /\ \A k \in DOMAIN keyPairs' : keyPairs'[k] = keyPairs[k]

\* C30: keyPairs changes only when GET /public-key adds one entry, leaving the others
\* as they are, or when a successful POST /key-agreement removes the entry it names;
\* every GET adds an entry, and a POST that fails leaves keyPairs unchanged.
C30_KeyPairsFrame ==
    [][prog = "key-agreement" =>
          /\ keyPairs' # keyPairs => AddedOne \/ RemovedNamed
          /\ rng' # rng /\ last' # last => AddedOne]_vars

\* A POST naming a key pair the server holds failed on the public key of the client,
\* which is text that does not parse or a key of another curve.
C30_Witness ==
    /\ prog = "key-agreement"
    /\ last.route = "POST /key-agreement"
    /\ last.status = 500
    /\ last.body.serverKeyId \in DOMAIN keyPairs
    /\ last.err \in {CreatePublicKeyError, DiffieHellmanError}
====
